---- MODULE Spec2Model ----
(***************************************************************************)
(* A model of android-sparse: the Encoder (raw image -> chunks), the       *)
(* Writer (blocks -> sparse image, with header back-patching and run       *)
(* merging), the Reader (sparse image -> chunks, optional CRC check) and   *)
(* the Decoder (blocks -> raw image).                                      *)
(*                                                                         *)
(* Scale.  A block is WordsPerBlock 4-byte words instead of 1024; every    *)
(* other size of the wire format (28, 12, 4) is the source's.  Bytes are   *)
(* naturals in 0..255.  A u32 that can exceed 2^31-1 (the file magic, a    *)
(* checksum) is a pair <<hi, lo>> of 16-bit halves; counts and sizes are   *)
(* integers.  An absent Option is <<>> (or NoChunk for a chunk header).    *)
(***************************************************************************)
EXTENDS Integers, Sequences, FiniteSets, TLC

\* ------------------------------------------------------------------ bounds
WordsPerBlock == 2
MaxBlocks == 3

\* --------------------------------------------------------------- constants
WORD_SIZE == 4
BLOCK_SIZE == WORD_SIZE * WordsPerBlock
FILE_HEADER_SIZE == 28
CHUNK_HEADER_SIZE == 12
FILE_MAGIC == <<60710, 65338>>
FILE_FORMAT_VERSION == <<1, 0>>
CHUNK_MAGIC_RAW == 51905
CHUNK_MAGIC_FILL == 51906
CHUNK_MAGIC_DONT_CARE == 51907
CHUNK_MAGIC_CRC32 == 51908

\* ------------------------------------------------------ bytes and integers
Max(a, b) == IF a >= b THEN a ELSE b

Zeros(n) == [i \in 1..n |-> 0]

RECURSIVE Xor(_, _)
Xor(a, b) ==
  IF a = 0 THEN b
  ELSE IF b = 0 THEN a
  ELSE ((a + b) % 2) + 2 * Xor(a \div 2, b \div 2)

\* byteorder::WriteBytesExt::write_u16::<LittleEndian>
LE16(n) == <<n % 256, (n \div 256) % 256>>

\* byteorder::WriteBytesExt::write_u32::<LittleEndian>, of an integer
LE32(n) == <<n % 256, (n \div 256) % 256, (n \div 65536) % 256, (n \div 16777216) % 256>>

\* byteorder::WriteBytesExt::write_u32::<LittleEndian>, of a <<hi, lo>> pair
LE32H(c) == LE16(c[2]) \o LE16(c[1])

\* byteorder::ReadBytesExt::read_u16::<LittleEndian>
FromLE16(b) == b[1] + 256 * b[2]

\* byteorder::ReadBytesExt::read_u32::<LittleEndian>, to an integer
FromLE32(b) == b[1] + 256 * b[2] + 65536 * b[3] + 16777216 * b[4]

\* byteorder::ReadBytesExt::read_u32::<LittleEndian>, to a <<hi, lo>> pair
FromLE32H(b) == <<b[3] + 256 * b[4], b[1] + 256 * b[2]>>

\* ------------------------------------------------------------------- CRC32
\* crc::crc32: the reflected IEEE polynomial 0xEDB88320, table driven.
RECURSIVE CrcTableEntry(_, _)
CrcTableEntry(v, k) ==
  IF k = 0 THEN v
  ELSE LET hi == v[1] \div 2
           lo == (v[2] \div 2) + (v[1] % 2) * 32768
       IN  CrcTableEntry(IF v[2] % 2 = 1
                           THEN <<Xor(hi, 60856), Xor(lo, 33568)>>
                           ELSE <<hi, lo>>,
                         k - 1)

CrcTable == [i \in 0..255 |-> CrcTableEntry(<<0, i>>, 8)]

CrcNot(v) == <<65535 - v[1], 65535 - v[2]>>

CrcStep(v, byte) ==
  LET t  == CrcTable[Xor(v[2] % 256, byte)]
      hi == v[1] \div 256
      lo == (v[2] \div 256) + (v[1] % 256) * 256
  IN  <<Xor(hi, t[1]), Xor(lo, t[2])>>

\* (Each step's value is settled, by the test on it, before the next step.)
RECURSIVE CrcFold(_, _, _)
CrcFold(v, bytes, i) ==
  IF i > Len(bytes) THEN v
  ELSE LET next == CrcStep(v, bytes[i])
       IN  IF next = <<>> THEN next ELSE CrcFold(next, bytes, i + 1)

\* crc32::Digest::new(crc32::IEEE): the digest holds the finished value.
DigestNew == <<0, 0>>

\* Hasher32::write: un-finish, fold the bytes in, finish again.
DigestWrite(d, bytes) == CrcNot(CrcFold(CrcNot(d), bytes, 1))

\* Hasher32::sum32
DigestSum32(d) == d

\* --------------------------------------------------------- seekable sinks
\* A sink (std::fs::File, io::Cursor) is its bytes and a position.  Writing
\* past the end fills the gap with zero bytes (a hole); writing nothing
\* changes nothing.
FileWriteAt(data, pos, bytes) ==
  IF bytes = <<>> THEN data
  ELSE [i \in 1..Max(Len(data), pos + Len(bytes)) |->
          IF i > pos /\ i <= pos + Len(bytes) THEN bytes[i - pos]
          ELSE IF i <= Len(data) THEN data[i]
          ELSE 0]

\* std::io::BufWriter over a sink: buf holds the bytes not yet written at pos.
BufCapacity == 2 * BLOCK_SIZE

BufWriterNew(data) == [buf |-> <<>>, data |-> data, pos |-> 0]

\* BufWriter::flush_buf
FlushBuf(w) ==
  [buf |-> <<>>, data |-> FileWriteAt(w.data, w.pos, w.buf), pos |-> w.pos + Len(w.buf)]

\* BufWriter::write_all: buffer the bytes when they fit, flushing first when
\* they do not; bytes as long as the whole buffer go straight to the sink.
BufWriteAll(w, bytes) ==
  IF Len(bytes) < BufCapacity - Len(w.buf)
    THEN [w EXCEPT !.buf = @ \o bytes]
    ELSE LET f == IF Len(bytes) > BufCapacity - Len(w.buf) THEN FlushBuf(w) ELSE w
         IN  IF Len(bytes) >= BufCapacity
               THEN [f EXCEPT !.data = FileWriteAt(f.data, f.pos, bytes),
                              !.pos = f.pos + Len(bytes)]
               ELSE [f EXCEPT !.buf = @ \o bytes]

\* BufWriter::seek(SeekFrom::Current(off)): flush, then move the sink.
BufSeekCurrent(w, off) == [FlushBuf(w) EXCEPT !.pos = @ + off]

\* BufWriter::seek(SeekFrom::Start(p))
BufSeekStart(w, p) == [FlushBuf(w) EXCEPT !.pos = p]

\* Tell::tell: seek(SeekFrom::Current(0)), which flushes too.
Tell(w) == BufSeekCurrent(w, 0)

\* Bytes n..n+k-1 (from 0) of a source, <<>> when it ends before (read_exact
\* then fails with UnexpectedEof).
ReadExact(data, pos, n) ==
  IF pos + n <= Len(data) THEN SubSeq(data, pos + 1, pos + n) ELSE <<>>

CanRead(data, pos, n) == pos + n <= Len(data)

\* ------------------------------------------------------------ wire headers
ChunkTypes == {"Raw", "Fill", "DontCare", "Crc32"}

NoChunk == [chunk_type |-> "None", chunk_size |-> 0, total_size |-> 0]

\* ChunkType::magic
ChunkTypeMagic(t) ==
  CASE t = "Raw" -> CHUNK_MAGIC_RAW
    [] t = "Fill" -> CHUNK_MAGIC_FILL
    [] t = "DontCare" -> CHUNK_MAGIC_DONT_CARE
    [] t = "Crc32" -> CHUNK_MAGIC_CRC32

\* ChunkType::from_magic, were only the magic's high byte and low three bits
\* looked at
ChunkTypeFromMagic_masked(m) ==
  CASE m \div 256 # 202 -> "Invalid"
    [] m % 8 = 1 -> "Raw"
    [] m % 8 = 2 -> "Fill"
    [] m % 8 = 3 -> "DontCare"
    [] m % 8 = 4 -> "Crc32"
    [] OTHER -> "Invalid"

\* ChunkType::from_magic: "Invalid" is the Parse error.
ChunkTypeFromMagic(m) ==
  CASE m = CHUNK_MAGIC_RAW -> "Raw"
    [] m = CHUNK_MAGIC_FILL -> "Fill"
    [] m = CHUNK_MAGIC_DONT_CARE -> "DontCare"
    [] m = CHUNK_MAGIC_CRC32 -> "Crc32"
    [] OTHER -> "Invalid"

\* FileHeader::write_to
FileHeaderBytes(h) ==
  LE32H(FILE_MAGIC)
    \o LE16(FILE_FORMAT_VERSION[1]) \o LE16(FILE_FORMAT_VERSION[2])
    \o LE16(FILE_HEADER_SIZE) \o LE16(CHUNK_HEADER_SIZE) \o LE32(BLOCK_SIZE)
    \o LE32(h.total_blocks) \o LE32(h.total_chunks) \o LE32(h.image_checksum)

\* ChunkHeader::write_to, were total_size written before chunk_size
ChunkHeaderBytes_swapped(c) ==
  LE16(ChunkTypeMagic(c.chunk_type)) \o LE16(0) \o LE32(c.total_size) \o LE32(c.chunk_size)

\* ChunkHeader::write_to
ChunkHeaderBytes(c) ==
  LE16(ChunkTypeMagic(c.chunk_type)) \o LE16(0) \o LE32(c.chunk_size) \o LE32(c.total_size)

\* FileHeader::read_from, were the block size not checked
FileHeaderRead_anyBlockSize(data, pos) ==
  LET Bad(e, off) == [err |-> e, header |-> [total_blocks |-> 0, total_chunks |-> 0,
                                             image_checksum |-> 0],
                      pos |-> IF e = "Io" THEN Len(data) ELSE pos + off]
      At(off, n) == SubSeq(data, pos + off + 1, pos + off + n)
  IN  IF ~CanRead(data, pos, 4) THEN Bad("Io", 0)
      ELSE IF FromLE32H(At(0, 4)) # FILE_MAGIC THEN Bad("Parse", 4)
      ELSE IF ~CanRead(data, pos, 8) THEN Bad("Io", 4)
      ELSE IF <<FromLE16(At(4, 2)), FromLE16(At(6, 2))>> # FILE_FORMAT_VERSION
        THEN Bad("Parse", 8)
      ELSE IF ~CanRead(data, pos, 10) THEN Bad("Io", 8)
      ELSE IF FromLE16(At(8, 2)) # FILE_HEADER_SIZE THEN Bad("Parse", 10)
      ELSE IF ~CanRead(data, pos, 12) THEN Bad("Io", 10)
      ELSE IF FromLE16(At(10, 2)) # CHUNK_HEADER_SIZE THEN Bad("Parse", 12)
      ELSE IF ~CanRead(data, pos, 16) THEN Bad("Io", 12)
      ELSE IF ~CanRead(data, pos, FILE_HEADER_SIZE) THEN Bad("Io", 16)
      ELSE [err |-> "",
            header |-> [total_blocks |-> FromLE32(At(16, 4)),
                        total_chunks |-> FromLE32(At(20, 4)),
                        image_checksum |-> FromLE32(At(24, 4))],
            pos |-> pos + FILE_HEADER_SIZE]

\* FileHeader::read_from, were the size of the chunk header not checked
FileHeaderRead_anyChunkHeaderSize(data, pos) ==
  LET Bad(e, off) == [err |-> e, header |-> [total_blocks |-> 0, total_chunks |-> 0,
                                             image_checksum |-> 0],
                      pos |-> IF e = "Io" THEN Len(data) ELSE pos + off]
      At(off, n) == SubSeq(data, pos + off + 1, pos + off + n)
  IN  IF ~CanRead(data, pos, 4) THEN Bad("Io", 0)
      ELSE IF FromLE32H(At(0, 4)) # FILE_MAGIC THEN Bad("Parse", 4)
      ELSE IF ~CanRead(data, pos, 8) THEN Bad("Io", 4)
      ELSE IF <<FromLE16(At(4, 2)), FromLE16(At(6, 2))>> # FILE_FORMAT_VERSION
        THEN Bad("Parse", 8)
      ELSE IF ~CanRead(data, pos, 10) THEN Bad("Io", 8)
      ELSE IF FromLE16(At(8, 2)) # FILE_HEADER_SIZE THEN Bad("Parse", 10)
      ELSE IF ~CanRead(data, pos, 12) THEN Bad("Io", 10)
      ELSE IF ~CanRead(data, pos, 16) THEN Bad("Io", 12)
      ELSE IF FromLE32(At(12, 4)) # BLOCK_SIZE THEN Bad("Parse", 16)
      ELSE IF ~CanRead(data, pos, FILE_HEADER_SIZE) THEN Bad("Io", 16)
      ELSE [err |-> "",
            header |-> [total_blocks |-> FromLE32(At(16, 4)),
                        total_chunks |-> FromLE32(At(20, 4)),
                        image_checksum |-> FromLE32(At(24, 4))],
            pos |-> pos + FILE_HEADER_SIZE]

\* FileHeader::read_from at offset pos of data: [err |-> "" | "Io" | "Parse"],
\* the header and the offset the source is left at.  The fields are read and
\* checked in the source's order, so a short source is an Io error only where
\* no earlier field already failed to parse; a read that fails for want of
\* bytes leaves the source at its end.
FileHeaderRead(data, pos) ==
  LET Bad(e, off) == [err |-> e, header |-> [total_blocks |-> 0, total_chunks |-> 0,
                                             image_checksum |-> 0],
                      pos |-> IF e = "Io" THEN Len(data) ELSE pos + off]
      At(off, n) == SubSeq(data, pos + off + 1, pos + off + n)
  IN  IF ~CanRead(data, pos, 4) THEN Bad("Io", 0)
      ELSE IF FromLE32H(At(0, 4)) # FILE_MAGIC THEN Bad("Parse", 4)
      ELSE IF ~CanRead(data, pos, 8) THEN Bad("Io", 4)
      ELSE IF <<FromLE16(At(4, 2)), FromLE16(At(6, 2))>> # FILE_FORMAT_VERSION
        THEN Bad("Parse", 8)
      ELSE IF ~CanRead(data, pos, 10) THEN Bad("Io", 8)
      ELSE IF FromLE16(At(8, 2)) # FILE_HEADER_SIZE THEN Bad("Parse", 10)
      ELSE IF ~CanRead(data, pos, 12) THEN Bad("Io", 10)
      ELSE IF FromLE16(At(10, 2)) # CHUNK_HEADER_SIZE THEN Bad("Parse", 12)
      ELSE IF ~CanRead(data, pos, 16) THEN Bad("Io", 12)
      ELSE IF FromLE32(At(12, 4)) # BLOCK_SIZE THEN Bad("Parse", 16)
      ELSE IF ~CanRead(data, pos, FILE_HEADER_SIZE) THEN Bad("Io", 16)
      ELSE [err |-> "",
            header |-> [total_blocks |-> FromLE32(At(16, 4)),
                        total_chunks |-> FromLE32(At(20, 4)),
                        image_checksum |-> FromLE32(At(24, 4))],
            pos |-> pos + FILE_HEADER_SIZE]

\* ChunkHeader::read_from at offset pos of data.
ChunkHeaderRead(data, pos) ==
  LET Bad(e) == [err |-> e, header |-> NoChunk, pos |-> pos]
      At(off, n) == SubSeq(data, pos + off + 1, pos + off + n)
  IN  IF ~CanRead(data, pos, 2) THEN Bad("Io")
      ELSE IF ChunkTypeFromMagic(FromLE16(At(0, 2))) = "Invalid" THEN Bad("Parse")
      ELSE IF ~CanRead(data, pos, CHUNK_HEADER_SIZE) THEN Bad("Io")
      ELSE [err |-> "",
            header |-> [chunk_type |-> ChunkTypeFromMagic(FromLE16(At(0, 2))),
                        chunk_size |-> FromLE32(At(4, 4)),
                        total_size |-> FromLE32(At(8, 4))],
            pos |-> pos + CHUNK_HEADER_SIZE]

\* ------------------------------------------------------------------ blocks
\* Block: Raw(buf) | Fill(value) | Skip | Crc32(checksum), as a type and its
\* payload (<<>> for Skip).
Raw(buf) == [type |-> "Raw", data |-> buf]
Fill(value) == [type |-> "Fill", data |-> value]
Skip == [type |-> "Skip", data |-> <<>>]
Crc32(checksum) == [type |-> "Crc32", data |-> checksum]

\* The bytes a data block stands for in the raw image.
FillBytes(value) == [i \in 1..BLOCK_SIZE |-> value[((i - 1) % WORD_SIZE) + 1]]

\* ------------------------------------------------------------- CRC helper
RECURSIVE DigestWriteTimes(_, _, _)
DigestWriteTimes(d, bytes, n) ==
  IF n = 0 THEN d
  ELSE LET next == DigestWrite(d, bytes)
       IN  IF next = <<>> THEN next ELSE DigestWriteTimes(next, bytes, n - 1)

\* WriteBlock for crc32::Digest, were a Crc32 block to feed its value
Digest_write_block_crcFed(d, block) ==
  CASE block.type = "Raw" -> DigestWrite(d, block.data)
    [] block.type = "Fill" -> DigestWriteTimes(d, block.data, BLOCK_SIZE \div WORD_SIZE)
    [] block.type = "Skip" -> DigestWrite(d, Zeros(BLOCK_SIZE))
    [] block.type = "Crc32" -> DigestWrite(d, LE32H(block.data))

\* WriteBlock for crc32::Digest, were Fill to feed its value once
Digest_write_block_fillOnce(d, block) ==
  CASE block.type = "Raw" -> DigestWrite(d, block.data)
    [] block.type = "Fill" -> DigestWrite(d, block.data)
    [] block.type = "Skip" -> DigestWrite(d, Zeros(BLOCK_SIZE))
    [] block.type = "Crc32" -> d

\* WriteBlock for crc32::Digest, were Skip to feed no bytes
Digest_write_block_skipNothing(d, block) ==
  CASE block.type = "Raw" -> DigestWrite(d, block.data)
    [] block.type = "Fill" -> DigestWriteTimes(d, block.data, BLOCK_SIZE \div WORD_SIZE)
    [] block.type = "Skip" -> d
    [] block.type = "Crc32" -> d

\* WriteBlock for crc32::Digest
Digest_write_block(d, block) ==
  CASE block.type = "Raw" -> DigestWrite(d, block.data)
    [] block.type = "Fill" -> DigestWriteTimes(d, block.data, BLOCK_SIZE \div WORD_SIZE)
    [] block.type = "Skip" -> DigestWrite(d, Zeros(BLOCK_SIZE))
    [] block.type = "Crc32" -> d

\* ------------------------------------------------------------------ Writer
\* patched is the log of the chunk headers finish_chunk wrote, each with the
\* offset it was written at.

\* Writer::new, were it not to seek past the file header
Writer_new_noSeek(data) ==
  [dst |-> BufWriterNew(data),
   current_chunk |-> NoChunk,
   current_fill |-> <<>>,
   num_blocks |-> 0,
   num_chunks |-> 0,
   crc |-> <<>>,
   finished |-> FALSE,
   patched |-> <<>>,
   finishes |-> 0,
   panicked |-> FALSE]

\* Writer::new
Writer_new(data) ==
  [dst |-> BufSeekCurrent(BufWriterNew(data), FILE_HEADER_SIZE),
   current_chunk |-> NoChunk,
   current_fill |-> <<>>,
   num_blocks |-> 0,
   num_chunks |-> 0,
   crc |-> <<>>,
   finished |-> FALSE,
   patched |-> <<>>,
   finishes |-> 0,
   panicked |-> FALSE]

\* Writer::with_crc
Writer_with_crc(data) == [Writer_new(data) EXCEPT !.crc = DigestNew]

\* Writer::can_merge, were it to merge Fill blocks of any value
Writer_can_merge_anyFill(w, block) ==
  IF w.current_chunk = NoChunk THEN FALSE
  ELSE CASE w.current_chunk.chunk_type = "Raw" /\ block.type = "Raw" -> TRUE
         [] w.current_chunk.chunk_type = "DontCare" /\ block.type = "Skip" -> TRUE
         [] w.current_chunk.chunk_type = "Fill" /\ block.type = "Fill" -> TRUE
         [] OTHER -> FALSE

\* Writer::can_merge, were it not to merge Skip blocks
Writer_can_merge_noSkip(w, block) ==
  IF w.current_chunk = NoChunk THEN FALSE
  ELSE CASE w.current_chunk.chunk_type = "Raw" /\ block.type = "Raw" -> TRUE
         [] w.current_chunk.chunk_type = "Fill" /\ block.type = "Fill" ->
              w.current_fill = block.data
         [] OTHER -> FALSE

\* Writer::can_merge, were a Crc32 block to go into an open Crc32 chunk
Writer_can_merge_crcRun(w, block) ==
  IF w.current_chunk = NoChunk THEN FALSE
  ELSE CASE w.current_chunk.chunk_type = "Raw" /\ block.type = "Raw" -> TRUE
         [] w.current_chunk.chunk_type = "DontCare" /\ block.type = "Skip" -> TRUE
         [] w.current_chunk.chunk_type = "Crc32" /\ block.type = "Crc32" -> TRUE
         [] w.current_chunk.chunk_type = "Fill" /\ block.type = "Fill" ->
              w.current_fill = block.data
         [] OTHER -> FALSE

\* Writer::can_merge
Writer_can_merge(w, block) ==
  IF w.current_chunk = NoChunk THEN FALSE
  ELSE CASE w.current_chunk.chunk_type = "Raw" /\ block.type = "Raw" -> TRUE
         [] w.current_chunk.chunk_type = "DontCare" /\ block.type = "Skip" -> TRUE
         [] w.current_chunk.chunk_type = "Fill" /\ block.type = "Fill" ->
              w.current_fill = block.data
         [] OTHER -> FALSE

\* Writer::start_chunk, were a Fill chunk to start with no body
Writer_start_chunk_fill0(w, block) ==
  LET chunk_type == CASE block.type = "Raw" -> "Raw"
                      [] block.type = "Fill" -> "Fill"
                      [] block.type = "Skip" -> "DontCare"
                      [] block.type = "Crc32" -> "Crc32"
      init_size == CASE block.type = "Raw" -> 0
                     [] block.type = "Fill" -> 0
                     [] block.type = "Skip" -> 0
                     [] block.type = "Crc32" -> 4
  IN  [w EXCEPT !.dst = BufSeekCurrent(@, CHUNK_HEADER_SIZE),
                !.current_chunk = [chunk_type |-> chunk_type,
                                   chunk_size |-> 0,
                                   total_size |-> init_size + CHUNK_HEADER_SIZE]]

\* Writer::start_chunk
Writer_start_chunk(w, block) ==
  LET chunk_type == CASE block.type = "Raw" -> "Raw"
                      [] block.type = "Fill" -> "Fill"
                      [] block.type = "Skip" -> "DontCare"
                      [] block.type = "Crc32" -> "Crc32"
      init_size == CASE block.type = "Raw" -> 0
                     [] block.type = "Fill" -> 4
                     [] block.type = "Skip" -> 0
                     [] block.type = "Crc32" -> 4
  IN  [w EXCEPT !.dst = BufSeekCurrent(@, CHUNK_HEADER_SIZE),
                !.current_chunk = [chunk_type |-> chunk_type,
                                   chunk_size |-> 0,
                                   total_size |-> init_size + CHUNK_HEADER_SIZE]]

\* Writer::finish_chunk, were it to leave the sink after the header it wrote
Writer_finish_chunk_noRestore(w) ==
  IF w.current_chunk = NoChunk THEN w
  ELSE LET chunk == w.current_chunk
           told == Tell(w.dst)
           pos == told.pos
           back == BufSeekCurrent(told, -chunk.total_size)
           wrote == BufWriteAll(back, ChunkHeaderBytes(chunk))
       IN  [w EXCEPT !.dst = wrote,
                     !.current_chunk = NoChunk,
                     !.current_fill = <<>>,
                     !.num_chunks = @ + 1,
                     !.num_blocks = @ + chunk.chunk_size,
                     !.patched = Append(@, [header |-> chunk, at |-> back.pos])]

\* Writer::finish_chunk
Writer_finish_chunk(w) ==
  IF w.current_chunk = NoChunk THEN w
  ELSE LET chunk == w.current_chunk
           told == Tell(w.dst)
           pos == told.pos
           back == BufSeekCurrent(told, -chunk.total_size)
           wrote == BufWriteAll(back, ChunkHeaderBytes(chunk))
       IN  [w EXCEPT !.dst = BufSeekStart(wrote, pos),
                     !.current_chunk = NoChunk,
                     !.current_fill = <<>>,
                     !.num_chunks = @ + 1,
                     !.num_blocks = @ + chunk.chunk_size,
                     !.patched = Append(@, [header |-> chunk, at |-> back.pos])]

\* Writer::write_block, were every Fill block to write its value
Writer_write_block_fillEach(w, block) ==
  LET w1 == IF Writer_can_merge(w, block) THEN w
            ELSE Writer_start_chunk(Writer_finish_chunk(w), block)
      w2 == CASE block.type = "Raw" ->
                   [w1 EXCEPT !.dst = BufWriteAll(@, block.data),
                              !.current_chunk.total_size = @ + BLOCK_SIZE]
              [] block.type = "Fill" ->
                   [w1 EXCEPT !.dst = BufWriteAll(@, block.data),
                              !.current_fill = block.data]
              [] block.type = "Skip" -> w1
              [] block.type = "Crc32" ->
                   [w1 EXCEPT !.dst = BufWriteAll(@, LE32H(block.data))]
  IN  IF block.type = "Crc32" THEN w2
      ELSE [w2 EXCEPT !.crc = IF @ = <<>> THEN @ ELSE Digest_write_block(@, block),
                      !.current_chunk.chunk_size = @ + 1]

\* Writer::write_block
Writer_write_block(w, block) ==
  LET w1 == IF Writer_can_merge(w, block) THEN w
            ELSE Writer_start_chunk(Writer_finish_chunk(w), block)
      w2 == CASE block.type = "Raw" ->
                   [w1 EXCEPT !.dst = BufWriteAll(@, block.data),
                              !.current_chunk.total_size = @ + BLOCK_SIZE]
              [] block.type = "Fill" ->
                   IF w1.current_fill = <<>>
                     THEN [w1 EXCEPT !.dst = BufWriteAll(@, block.data),
                                     !.current_fill = block.data]
                     ELSE w1
              [] block.type = "Skip" -> w1
              [] block.type = "Crc32" ->
                   [w1 EXCEPT !.dst = BufWriteAll(@, LE32H(block.data))]
  IN  IF block.type = "Crc32" THEN w2
      ELSE [w2 EXCEPT !.crc = IF @ = <<>> THEN @ ELSE Digest_write_block(@, block),
                      !.current_chunk.chunk_size = @ + 1]

\* Writer::write_checksum
Writer_write_checksum(w) ==
  IF w.crc = <<>> THEN w ELSE Writer_write_block(w, Crc32(DigestSum32(w.crc)))

\* Writer::finish, were the header made before the last chunk is finished
Writer_finish_early(w) ==
  IF w.finished THEN [w EXCEPT !.panicked = TRUE] ELSE
  LET w1 == Writer_finish_chunk(Writer_write_checksum([w EXCEPT !.finished = TRUE,
                                                                !.finishes = @ + 1]))
      header == [total_blocks |-> w.num_blocks,
                 total_chunks |-> w.num_chunks,
                 image_checksum |-> 0]
  IN  [w1 EXCEPT !.dst = FlushBuf(BufWriteAll(BufSeekStart(@, 0), FileHeaderBytes(header)))]

\* Writer::finish
Writer_finish(w) ==
  IF w.finished THEN [w EXCEPT !.panicked = TRUE] ELSE
  LET w1 == Writer_finish_chunk(Writer_write_checksum([w EXCEPT !.finished = TRUE,
                                                                !.finishes = @ + 1]))
      header == [total_blocks |-> w1.num_blocks,
                 total_chunks |-> w1.num_chunks,
                 image_checksum |-> 0]
  IN  [w1 EXCEPT !.dst = FlushBuf(BufWriteAll(BufSeekStart(@, 0), FileHeaderBytes(header)))]

\* Drop for Writer, were it to finish whether or not finish has run
Writer_drop_always(w) == [Writer_finish(w) EXCEPT !.dst = FlushBuf(@)]

\* Drop for Writer: finish unless finish has run, its error ignored; then
\* the BufWriter is dropped, which writes its buffer out.
Writer_drop(w) ==
  [(IF ~w.finished THEN Writer_finish(w) ELSE w) EXCEPT !.dst = FlushBuf(@)]

\* Writer::close: finish, and the consumed writer is dropped on return.
Writer_close(w) == Writer_drop(Writer_finish(w))

\* ----------------------------------------------------------------- Decoder
\* Decoder::new
Decoder_new(data) == [dst |-> BufWriterNew(data), finished |-> FALSE]

RECURSIVE BufWriteTimes(_, _, _)
BufWriteTimes(w, bytes, n) ==
  IF n = 0 THEN w
  ELSE LET next == BufWriteAll(w, bytes)
       IN  IF next.pos < 0 THEN next ELSE BufWriteTimes(next, bytes, n - 1)

\* Decoder::write_block, were Skip to seek from the start of the output
Decoder_write_block_fromStart(d, block) ==
  CASE block.type = "Raw" -> [d EXCEPT !.dst = BufWriteAll(@, block.data)]
    [] block.type = "Fill" ->
         [d EXCEPT !.dst = BufWriteTimes(@, block.data, BLOCK_SIZE \div WORD_SIZE)]
    [] block.type = "Skip" ->
         [d EXCEPT !.dst = BufWriteAll(BufSeekStart(@, BLOCK_SIZE - 1), <<0>>)]
    [] block.type = "Crc32" -> d

\* Decoder::write_block, were Fill to write its value once
Decoder_write_block_fillOnce(d, block) ==
  CASE block.type = "Raw" -> [d EXCEPT !.dst = BufWriteAll(@, block.data)]
    [] block.type = "Fill" -> [d EXCEPT !.dst = BufWriteAll(@, block.data)]
    [] block.type = "Skip" ->
         [d EXCEPT !.dst = BufWriteAll(BufSeekCurrent(@, BLOCK_SIZE - 1), <<0>>)]
    [] block.type = "Crc32" -> d

\* Decoder::write_block, were Skip to seek a whole block and write nothing
Decoder_write_block_seekOnly(d, block) ==
  CASE block.type = "Raw" -> [d EXCEPT !.dst = BufWriteAll(@, block.data)]
    [] block.type = "Fill" ->
         [d EXCEPT !.dst = BufWriteTimes(@, block.data, BLOCK_SIZE \div WORD_SIZE)]
    [] block.type = "Skip" -> [d EXCEPT !.dst = BufSeekCurrent(@, BLOCK_SIZE)]
    [] block.type = "Crc32" -> d

\* Decoder::write_block
Decoder_write_block(d, block) ==
  CASE block.type = "Raw" -> [d EXCEPT !.dst = BufWriteAll(@, block.data)]
    [] block.type = "Fill" ->
         [d EXCEPT !.dst = BufWriteTimes(@, block.data, BLOCK_SIZE \div WORD_SIZE)]
    [] block.type = "Skip" ->
         [d EXCEPT !.dst = BufWriteAll(BufSeekCurrent(@, BLOCK_SIZE - 1), <<0>>)]
    [] block.type = "Crc32" -> d

\* Decoder::finish: flushes the sink under the BufWriter, not the BufWriter.
Decoder_finish(d) == [d EXCEPT !.finished = TRUE]

\* Decoder::close, and the drop of the consumed decoder: the BufWriter
\* writes its buffer out when it is dropped.
Decoder_close(d) == [Decoder_finish(d) EXCEPT !.dst = FlushBuf(@)]

\* The results W::flush of the sink under the BufWriter can give: flush of a
\* std::fs::File does nothing and is Ok; a sink that rejects writes may say
\* so or not.
SinkFlush(fails) == IF fails THEN {"Ok", "Io"} ELSE {"Ok"}

\* Drop for BufWriter: flush_buf, its error ignored; the bytes still buffered
\* are lost when the sink rejects the write.
BufWriterDrop(w, fails) == IF fails THEN [w EXCEPT !.buf = <<>>] ELSE FlushBuf(w)

\* Decoder::close over a sink that may reject writes: finish flushes the sink
\* itself and returns what that gave, then the consumed decoder is dropped
\* and with it its BufWriter.
Decoder_close_sink(d, fails, flushed) ==
  [dec |-> [Decoder_finish(d) EXCEPT !.dst = BufWriterDrop(@, fails)],
   ret |-> flushed]

\* ------------------------------------------- Writer over a sink that fails
\* The same code over a sink that, while `fails` holds, rejects every write
\* (its seeks go through): a call is [w |-> the state it leaves, ok |-> it
\* returned Ok].  `?` returns at the first call that is not Ok, with what was
\* assigned until then.

\* BufWriter::flush_buf: the bytes the sink rejects stay in the buffer.
IoFlushBuf(w, fails) ==
  IF fails /\ w.buf # <<>> THEN [w |-> w, ok |-> FALSE]
  ELSE [w |-> FlushBuf(w), ok |-> TRUE]

\* BufWriter::write_all
IoWriteAll(w, bytes, fails) ==
  IF bytes = <<>> THEN [w |-> w, ok |-> TRUE]
  ELSE IF ~fails THEN [w |-> BufWriteAll(w, bytes), ok |-> TRUE]
  ELSE IF Len(bytes) > BufCapacity - Len(w.buf) /\ w.buf # <<>> THEN [w |-> w, ok |-> FALSE]
  ELSE IF Len(bytes) >= BufCapacity THEN [w |-> w, ok |-> FALSE]
  ELSE [w |-> [w EXCEPT !.buf = @ \o bytes], ok |-> TRUE]

\* The ? operator on a call's result: go on with F on Ok, return the error
\* as it is otherwise.
Try(r, F(_)) == IF r.ok THEN F(r.w) ELSE r

\* The Writer w with its sink as the call r on the sink left it.
OnDst(w, r) == [w |-> [w EXCEPT !.dst = r.w], ok |-> r.ok]

\* BufWriter::seek(SeekFrom::Current(off))
IoSeekCurrent(w, off, fails) ==
  Try(IoFlushBuf(w, fails), LAMBDA d : [w |-> [d EXCEPT !.pos = @ + off], ok |-> TRUE])

\* BufWriter::seek(SeekFrom::Start(p))
IoSeekStart(w, p, fails) ==
  Try(IoFlushBuf(w, fails), LAMBDA d : [w |-> [d EXCEPT !.pos = p], ok |-> TRUE])

\* Writer::start_chunk
Writer_start_chunk_io(w, block, fails) ==
  Try(OnDst(w, IoSeekCurrent(w.dst, CHUNK_HEADER_SIZE, fails)), LAMBDA s :
      [w |-> [s EXCEPT !.current_chunk = Writer_start_chunk(w, block).current_chunk],
       ok |-> TRUE])

\* Writer::finish_chunk: the chunk is taken before the first call that may
\* fail; patched logs the header once chunk.write_to is called.
Writer_finish_chunk_io(w, fails) ==
  IF w.current_chunk = NoChunk THEN [w |-> w, ok |-> TRUE] ELSE
  Try(OnDst([w EXCEPT !.current_chunk = NoChunk], IoSeekCurrent(w.dst, 0, fails)),
      LAMBDA told :
  Try(OnDst(told, IoSeekCurrent(told.dst, -w.current_chunk.total_size, fails)),
      LAMBDA back :
  Try(OnDst([back EXCEPT !.patched =
                           Append(@, [header |-> w.current_chunk, at |-> back.dst.pos])],
            IoWriteAll(back.dst, ChunkHeaderBytes(w.current_chunk), fails)),
      LAMBDA wrote :
  Try(OnDst(wrote, IoSeekStart(wrote.dst, told.dst.pos, fails)),
      LAMBDA rest :
      [w |-> [rest EXCEPT !.current_fill = <<>>,
                          !.num_chunks = @ + 1,
                          !.num_blocks = @ + w.current_chunk.chunk_size],
       ok |-> TRUE]))))

\* The bytes write_block hands to the sink for block.
Writer_block_bytes(w, block) ==
  CASE block.type = "Raw" -> block.data
    [] block.type = "Fill" -> IF w.current_fill = <<>> THEN block.data ELSE <<>>
    [] block.type = "Skip" -> <<>>
    [] block.type = "Crc32" -> LE32H(block.data)

\* The Writer's bookkeeping in write_block once the bytes are written.
Writer_block_count(w, block) ==
  CASE block.type = "Raw" ->
         [w EXCEPT !.current_chunk.total_size = @ + BLOCK_SIZE,
                   !.crc = IF @ = <<>> THEN @ ELSE Digest_write_block(@, block),
                   !.current_chunk.chunk_size = @ + 1]
    [] block.type = "Fill" ->
         [w EXCEPT !.current_fill = IF @ = <<>> THEN block.data ELSE @,
                   !.crc = IF @ = <<>> THEN @ ELSE Digest_write_block(@, block),
                   !.current_chunk.chunk_size = @ + 1]
    [] block.type = "Skip" ->
         [w EXCEPT !.crc = IF @ = <<>> THEN @ ELSE Digest_write_block(@, block),
                   !.current_chunk.chunk_size = @ + 1]
    [] block.type = "Crc32" -> w

\* Writer::write_block
Writer_write_block_io(w, block, fails) ==
  Try(IF Writer_can_merge(w, block) THEN [w |-> w, ok |-> TRUE]
      ELSE Try(Writer_finish_chunk_io(w, fails),
               LAMBDA fin : Writer_start_chunk_io(fin, block, fails)),
      LAMBDA w1 :
  Try(OnDst(w1, IoWriteAll(w1.dst, Writer_block_bytes(w1, block), fails)),
      LAMBDA wa :
      [w |-> Writer_block_count(wa, block), ok |-> TRUE]))

\* Writer::write_checksum
Writer_write_checksum_io(w, fails) ==
  IF w.crc = <<>> THEN [w |-> w, ok |-> TRUE]
  ELSE Writer_write_block_io(w, Crc32(DigestSum32(w.crc)), fails)

\* Writer::finish
Writer_finish_io(w, fails) ==
  IF w.finished THEN [w |-> [w EXCEPT !.panicked = TRUE], ok |-> FALSE] ELSE
  Try(Writer_write_checksum_io([w EXCEPT !.finished = TRUE, !.finishes = @ + 1], fails),
      LAMBDA sum :
  Try(Writer_finish_chunk_io(sum, fails),
      LAMBDA fin :
  Try(OnDst(fin, IoSeekStart(fin.dst, 0, fails)),
      LAMBDA seek :
  Try(OnDst(seek, IoWriteAll(seek.dst,
                             FileHeaderBytes([total_blocks |-> fin.num_blocks,
                                              total_chunks |-> fin.num_chunks,
                                              image_checksum |-> 0]),
                             fails)),
      LAMBDA wrote :
      OnDst(wrote, IoFlushBuf(wrote.dst, fails))))))

\* Drop for Writer: finish unless finish has run, its error ignored, whatever
\* the calls before returned; then the BufWriter is dropped.
Writer_drop_io(w, fails) ==
  [(IF ~w.finished THEN Writer_finish_io(w, fails).w ELSE w)
     EXCEPT !.dst = BufWriterDrop(@, fails)]

\* ------------------------------------------------- sparse File (file.rs)
\* file::Chunk of the in-memory File: Raw { buf } | Fill { fill, size } |
\* DontCare { size } | Crc32 { crc }, sizes in bytes; data is the buf, the
\* fill or the crc.  (RawFileBacked chunks are not modelled.)  A call is
\* [f |-> the File it leaves, ok |-> it returned Ok].
File_Raw(buf) == [type |-> "Raw", data |-> buf, size |-> 0]
File_Fill(fill, size) == [type |-> "Fill", data |-> fill, size |-> size]
File_DontCare(size) == [type |-> "DontCare", data |-> <<>>, size |-> size]
File_Crc32(crc) == [type |-> "Crc32", data |-> crc, size |-> 0]

\* File::new
File_new(block_size) == [block_size |-> block_size, chunks |-> <<>>]

\* self.chunks.iter_mut().last() is a chunk of type t
File_last_is(f, t) == f.chunks # <<>> /\ f.chunks[Len(f.chunks)].type = t

\* File::add_raw
File_add_raw(f, buf) ==
  IF Len(buf) % f.block_size # 0 THEN [f |-> f, ok |-> FALSE]
  ELSE IF File_last_is(f, "Raw")
    THEN [f |-> [f EXCEPT !.chunks[Len(f.chunks)].data = @ \o buf], ok |-> TRUE]
  ELSE [f |-> [f EXCEPT !.chunks = Append(@, File_Raw(buf))], ok |-> TRUE]

\* File::add_fill, were every call to push a chunk
File_add_fill_push(f, fill, size) ==
  IF size % f.block_size # 0 THEN [f |-> f, ok |-> FALSE]
  ELSE [f |-> [f EXCEPT !.chunks = Append(@, File_Fill(fill, size))], ok |-> TRUE]

\* File::add_fill
File_add_fill(f, fill, size) ==
  IF size % f.block_size # 0 THEN [f |-> f, ok |-> FALSE]
  ELSE IF File_last_is(f, "Fill") /\ f.chunks[Len(f.chunks)].data = fill
    THEN [f |-> [f EXCEPT !.chunks[Len(f.chunks)].size = @ + size], ok |-> TRUE]
  ELSE [f |-> [f EXCEPT !.chunks = Append(@, File_Fill(fill, size))], ok |-> TRUE]

\* File::add_dont_care
File_add_dont_care(f, size) ==
  IF size % f.block_size # 0 THEN [f |-> f, ok |-> FALSE]
  ELSE IF File_last_is(f, "DontCare")
    THEN [f |-> [f EXCEPT !.chunks[Len(f.chunks)].size = @ + size], ok |-> TRUE]
  ELSE [f |-> [f EXCEPT !.chunks = Append(@, File_DontCare(size))], ok |-> TRUE]

\* File::add_crc32
File_add_crc32(f, crc) ==
  [f |-> [f EXCEPT !.chunks = Append(@, File_Crc32(crc))], ok |-> TRUE]

\* Chunk::raw_size
Chunk_raw_size(chunk) ==
  CASE chunk.type = "Raw" -> Len(chunk.data)
    [] chunk.type \in {"Fill", "DontCare"} -> chunk.size
    [] chunk.type = "Crc32" -> 0

\* File::num_blocks: the fold over the chunks, from the first.
RECURSIVE File_num_blocks_fold(_, _, _)
File_num_blocks_fold(f, k, sum) ==
  IF k > Len(f.chunks) THEN sum
  ELSE File_num_blocks_fold(f, k + 1, sum + Chunk_raw_size(f.chunks[k]) \div f.block_size)

File_num_blocks(f) == File_num_blocks_fold(f, 1, 0)

\* ------------------------------------------- the earlier Decoder (decoder.rs)
\* Decoder over a plain Write sink, by chunks of a File: w is the bytes the
\* sink holds, a write appends to them.
\* Decoder::write_chunk, were Fill to write the first byte of the value only
Decoder_write_chunk_firstByte(w, chunk) ==
  CASE chunk.type = "Raw" -> w \o chunk.data
    [] chunk.type = "Fill" -> w \o [i \in 1..chunk.size |-> chunk.data[1]]
    [] chunk.type = "DontCare" -> w \o Zeros(chunk.size)
    [] chunk.type = "Crc32" -> w

\* Decoder::write_chunk
Decoder_write_chunk(w, chunk) ==
  CASE chunk.type = "Raw" -> w \o chunk.data
    [] chunk.type = "Fill" -> w \o [i \in 1..chunk.size |-> chunk.data[((i - 1) % 4) + 1]]
    [] chunk.type = "DontCare" -> w \o Zeros(chunk.size)
    [] chunk.type = "Crc32" -> w

\* Decoder::write: every chunk of the File in turn.
RECURSIVE Decoder_write_from(_, _, _)
Decoder_write_from(w, f, k) ==
  IF k > Len(f.chunks) THEN w
  ELSE Decoder_write_from(Decoder_write_chunk(w, f.chunks[k]), f, k + 1)

Decoder_write(w, f) == Decoder_write_from(w, f, 1)

\* ------------------------------------------------------------------ chunks
\* file::Chunk, as the Reader and the Encoder build it: Raw { file, offset,
\* num_blocks } | Fill { fill, num_blocks } | DontCare { num_blocks } |
\* Crc32 { crc }; value is the fill or the crc.
RawChunk(offset, n) == [type |-> "Raw", offset |-> offset, value |-> <<>>, num_blocks |-> n]
FillChunk(fill, n) == [type |-> "Fill", offset |-> 0, value |-> fill, num_blocks |-> n]
DontCareChunk(n) == [type |-> "DontCare", offset |-> 0, value |-> <<>>, num_blocks |-> n]
Crc32Chunk(crc) == [type |-> "Crc32", offset |-> 0, value |-> crc, num_blocks |-> 0]
NoneChunk == [type |-> "None", offset |-> 0, value |-> <<>>, num_blocks |-> 0]

\* The blocks of a chunk, one per block of the raw image it stands for (a
\* Raw chunk refers to the bytes of its file), and the one block of a Crc32
\* chunk.
ChunkBlocks(chunk, data) ==
  CASE chunk.type = "Raw" ->
         [k \in 1..chunk.num_blocks |->
            Raw(ReadExact(data, chunk.offset + (k - 1) * BLOCK_SIZE, BLOCK_SIZE))]
    [] chunk.type = "Fill" -> [k \in 1..chunk.num_blocks |-> Fill(chunk.value)]
    [] chunk.type = "DontCare" -> [k \in 1..chunk.num_blocks |-> Skip]
    [] chunk.type = "Crc32" -> <<Crc32(chunk.value)>>

RECURSIVE ChunksBlocks(_, _)
ChunksBlocks(chunks, data) ==
  IF chunks = <<>> THEN <<>>
  ELSE ChunkBlocks(Head(chunks), data) \o ChunksBlocks(Tail(chunks), data)

\* ------------------------------------------------------------------ Reader
\* err is "" (none), "Io", "Parse" (a header that does not parse) or the
\* message of the checksum error.
\* Reader::new
Reader_new == [pos |-> 0, crc |-> <<>>, err |-> "", remaining |-> 0,
               started |-> FALSE, spf |-> <<>>]

\* Reader::with_crc
Reader_with_crc(r) == [r EXCEPT !.crc = DigestNew]

\* Reader::check_crc, were its comparison the other way round
Reader_check_crc_inverted(r, crc) ==
  IF r.crc # <<>> /\ DigestSum32(r.crc) = crc THEN "Checksum does not match" ELSE ""

\* Reader::check_crc
Reader_check_crc(r, crc) ==
  IF r.crc # <<>> /\ DigestSum32(r.crc) # crc THEN "Checksum does not match" ELSE ""

\* The loop of Reader::read_raw_chunk that reads n blocks into the digest.
RECURSIVE DigestReadBlocks(_, _, _, _)
DigestReadBlocks(d, data, pos, n) ==
  IF n = 0 THEN d
  ELSE LET next == DigestWrite(d, ReadExact(data, pos, BLOCK_SIZE))
       IN  IF next = <<>> THEN next
           ELSE DigestReadBlocks(next, data, pos + BLOCK_SIZE, n - 1)

\* Reader::read_raw_chunk, were the offset taken after the body
Reader_read_raw_chunk_offsetAfter(r, data, num_blocks) ==
  LET size == num_blocks * BLOCK_SIZE
      chunk == RawChunk(r.pos + size, num_blocks)
  IN  IF r.crc # <<>>
        THEN IF ~CanRead(data, r.pos, size)
               THEN [r EXCEPT !.err = "Io"]
               ELSE [r EXCEPT !.pos = @ + size,
                              !.crc = DigestReadBlocks(@, data, r.pos, num_blocks),
                              !.spf = Append(@, chunk)]
        ELSE [r EXCEPT !.pos = @ + size, !.spf = Append(@, chunk)]

\* Reader::read_raw_chunk
Reader_read_raw_chunk(r, data, num_blocks) ==
  LET chunk == RawChunk(r.pos, num_blocks)
      size == num_blocks * BLOCK_SIZE
  IN  IF r.crc # <<>>
        THEN IF ~CanRead(data, r.pos, size)
               THEN [r EXCEPT !.err = "Io"]
               ELSE [r EXCEPT !.pos = @ + size,
                              !.crc = DigestReadBlocks(@, data, r.pos, num_blocks),
                              !.spf = Append(@, chunk)]
        ELSE [r EXCEPT !.pos = @ + size, !.spf = Append(@, chunk)]

\* Reader::read_fill_chunk, were a chunk of no blocks to have no value
Reader_read_fill_chunk_emptyNoValue(r, data, num_blocks) ==
  IF num_blocks = 0 THEN [r EXCEPT !.spf = Append(@, FillChunk(Zeros(4), 0))]
  ELSE IF ~CanRead(data, r.pos, 4) THEN [r EXCEPT !.err = "Io"]
  ELSE LET fill == ReadExact(data, r.pos, 4)
       IN  [r EXCEPT !.pos = @ + 4,
                     !.crc = IF @ = <<>> THEN @
                             ELSE DigestWriteTimes(@, fill, (num_blocks * BLOCK_SIZE) \div 4),
                     !.spf = Append(@, FillChunk(fill, num_blocks))]

\* Reader::read_fill_chunk
Reader_read_fill_chunk(r, data, num_blocks) ==
  IF ~CanRead(data, r.pos, 4) THEN [r EXCEPT !.err = "Io"]
  ELSE LET fill == ReadExact(data, r.pos, 4)
       IN  [r EXCEPT !.pos = @ + 4,
                     !.crc = IF @ = <<>> THEN @
                             ELSE DigestWriteTimes(@, fill, (num_blocks * BLOCK_SIZE) \div 4),
                     !.spf = Append(@, FillChunk(fill, num_blocks))]

\* Reader::read_dont_care_chunk
Reader_read_dont_care_chunk(r, num_blocks) ==
  [r EXCEPT !.crc = IF @ = <<>> THEN @
                    ELSE DigestWriteTimes(@, Zeros(BLOCK_SIZE), num_blocks),
            !.spf = Append(@, DontCareChunk(num_blocks))]

\* Reader::read_crc32_chunk, were the value checked without a digest too
Reader_read_crc32_chunk_strict(r, data) ==
  IF ~CanRead(data, r.pos, 4) THEN [r EXCEPT !.err = "Io"]
  ELSE LET crc == FromLE32H(ReadExact(data, r.pos, 4))
           r1 == [r EXCEPT !.pos = @ + 4]
           sum == IF r1.crc = <<>> THEN DigestSum32(DigestNew) ELSE DigestSum32(r1.crc)
       IN  IF sum # crc
             THEN [r1 EXCEPT !.err = "Checksum does not match"]
             ELSE [r1 EXCEPT !.spf = Append(@, Crc32Chunk(crc))]

\* Reader::read_crc32_chunk
Reader_read_crc32_chunk(r, data) ==
  IF ~CanRead(data, r.pos, 4) THEN [r EXCEPT !.err = "Io"]
  ELSE LET crc == FromLE32H(ReadExact(data, r.pos, 4))
           r1 == [r EXCEPT !.pos = @ + 4]
       IN  IF Reader_check_crc(r1, crc) # ""
             THEN [r1 EXCEPT !.err = Reader_check_crc(r1, crc)]
             ELSE [r1 EXCEPT !.spf = Append(@, Crc32Chunk(crc))]

\* Reader::read_chunk, one turn of the loop of Reader::read
Reader_read_chunk(r, data) ==
  LET h == ChunkHeaderRead(data, r.pos)
      r1 == [r EXCEPT !.pos = h.pos, !.remaining = @ - 1]
      num_blocks == h.header.chunk_size
  IN  IF h.err # "" THEN [r EXCEPT !.err = h.err]
      ELSE CASE h.header.chunk_type = "Raw" -> Reader_read_raw_chunk(r1, data, num_blocks)
             [] h.header.chunk_type = "Fill" -> Reader_read_fill_chunk(r1, data, num_blocks)
             [] h.header.chunk_type = "DontCare" -> Reader_read_dont_care_chunk(r1, num_blocks)
             [] h.header.chunk_type = "Crc32" -> Reader_read_crc32_chunk(r1, data)

\* Reader::read up to its loop, were the loop to take one turn more
Reader_read_header_inclusive(r, data) ==
  LET h == FileHeaderRead(data, r.pos)
  IN  IF h.err # "" THEN [r EXCEPT !.pos = h.pos, !.err = h.err, !.started = TRUE]
      ELSE [r EXCEPT !.pos = h.pos, !.remaining = h.header.total_chunks + 1,
                     !.started = TRUE]

\* Reader::read up to its loop: the file header gives the number of turns.
Reader_read_header(r, data) ==
  LET h == FileHeaderRead(data, r.pos)
  IN  IF h.err # "" THEN [r EXCEPT !.pos = h.pos, !.err = h.err, !.started = TRUE]
      ELSE [r EXCEPT !.pos = h.pos, !.remaining = h.header.total_chunks,
                     !.started = TRUE]

\* The loop of Reader::read: a turn per chunk of the count, up to an error.
RECURSIVE Reader_read_loop(_, _)
Reader_read_loop(r, data) ==
  IF r.err # "" \/ r.remaining <= 0 THEN r
  ELSE Reader_read_loop(Reader_read_chunk(r, data), data)

\* ----------------------------------------------------------------- Encoder
\* is_sparse_block, were its loop to stop one word early
is_sparse_block_skipLast(block) ==
  IF Len(block) # BLOCK_SIZE THEN FALSE
  ELSE \A k \in 1..(BLOCK_SIZE \div 4) - 2 :
         SubSeq(block, 4 * k + 1, 4 * k + 4) = SubSeq(block, 1, 4)

\* is_sparse_block
is_sparse_block(block) ==
  IF Len(block) # BLOCK_SIZE THEN FALSE
  ELSE \A k \in 1..(BLOCK_SIZE \div 4) - 1 :
         SubSeq(block, 4 * k + 1, 4 * k + 4) = SubSeq(block, 1, 4)

\* read4
read4(bytes) == SubSeq(bytes, 1, 4)

\* Encoder::merge_block, were it to test the first byte of the fill only
Encoder_classify_firstByte(block) ==
  IF is_sparse_block(block)
    THEN IF read4(block)[1] = 0 THEN Skip ELSE Fill(read4(block))
    ELSE Raw(block)

\* Encoder::merge_block, as the block it takes `block` for
Encoder_classify(block) ==
  IF is_sparse_block(block)
    THEN IF read4(block) = Zeros(4) THEN Skip ELSE Fill(read4(block))
    ELSE Raw(block)

\* Encoder::new
Encoder_new == [pos |-> 0, chunk |-> NoneChunk, spf |-> <<>>, done |-> FALSE, err |-> ""]

\* Encoder::merge_raw_block: [old, new].  curr_off is where the source stands
\* after the block was read; an offset below 0 stands for the u64 subtraction
\* that overflows (a panic, or a wrapped offset where overflow is unchecked).
Encoder_merge_raw_block(e) ==
  IF e.chunk.type = "Raw"
    THEN [old |-> NoneChunk, new |-> [e.chunk EXCEPT !.num_blocks = @ + 1]]
    ELSE [old |-> e.chunk, new |-> RawChunk(e.pos - BLOCK_SIZE, 1)]

\* Encoder::merge_fill_block, were it to merge fills of any value
Encoder_merge_fill_block_anyFill(e, fill) ==
  IF e.chunk.type = "Fill"
    THEN [old |-> NoneChunk, new |-> [e.chunk EXCEPT !.num_blocks = @ + 1]]
    ELSE [old |-> e.chunk, new |-> FillChunk(fill, 1)]

\* Encoder::merge_fill_block
Encoder_merge_fill_block(e, fill) ==
  IF e.chunk.type = "Fill" /\ e.chunk.value = fill
    THEN [old |-> NoneChunk, new |-> [e.chunk EXCEPT !.num_blocks = @ + 1]]
    ELSE [old |-> e.chunk, new |-> FillChunk(fill, 1)]

\* Encoder::merge_don_care_block
Encoder_merge_don_care_block(e) ==
  IF e.chunk.type = "DontCare"
    THEN [old |-> NoneChunk, new |-> [e.chunk EXCEPT !.num_blocks = @ + 1]]
    ELSE [old |-> e.chunk, new |-> DontCareChunk(1)]

\* Encoder::merge_block
Encoder_merge_block(e, block) ==
  LET b == Encoder_classify(block)
  IN  CASE b.type = "Skip" -> Encoder_merge_don_care_block(e)
        [] b.type = "Fill" -> Encoder_merge_fill_block(e, b.data)
        [] b.type = "Raw" -> Encoder_merge_raw_block(e)

\* Encoder::read_block
Encoder_read_block(e, block) ==
  IF block = <<>> THEN e
  ELSE LET m == Encoder_merge_block(e, block)
       IN  [e EXCEPT !.chunk = m.new,
                     !.spf = IF m.old = NoneChunk THEN @ ELSE Append(@, m.old)]

\* One turn of the loop of Encoder::read; the turn that reads less than a
\* block leaves the loop and adds the last chunk.
Encoder_read_turn(e, data) ==
  LET bytes_read == IF Len(data) - e.pos >= BLOCK_SIZE THEN BLOCK_SIZE ELSE Len(data) - e.pos
      block == SubSeq(data, e.pos + 1, e.pos + bytes_read)
      e1 == Encoder_read_block([e EXCEPT !.pos = @ + bytes_read], block)
  IN  IF bytes_read # BLOCK_SIZE
        THEN [e1 EXCEPT !.done = TRUE,
                        !.chunk = NoneChunk,
                        !.spf = IF e1.chunk = NoneChunk THEN @ ELSE Append(@, e1.chunk)]
        ELSE e1

\* Encoder::read when read_all returns an error of the source: `?` returns
\* it at once, the chunk in hand is not added.
Encoder_read_fails(e) == [e EXCEPT !.err = "Io"]

\* ------------------------------------------------------------------ inputs
\* tests/util: raw1[i] = i as u8, raw2 is zero but for raw2[1] = 0x66.
raw1 == [i \in 1..BLOCK_SIZE |-> i - 1]
raw2 == [i \in 1..BLOCK_SIZE |-> IF i = 2 THEN 102 ELSE 0]
\* A block whose first word is zero and whose last byte is not.
rawTail == [i \in 1..BLOCK_SIZE |-> IF i = BLOCK_SIZE THEN 1 ELSE 0]
fillA == <<170, 187, 204, 221>>
fillB == <<170, 170, 170, 170>>
crcX == <<4660, 22136>>

\* The blocks a caller hands to Writer::write_block.
Blocks ==
  {Raw(raw1), Raw(raw2), Fill(fillA), Fill(fillB), Skip, Crc32(<<0, 0>>), Crc32(crcX)}

\* The blocks of the raw images the Encoder reads.
RawBlocks == {Zeros(BLOCK_SIZE), FillBytes(fillA), raw1, rawTail}

RECURSIVE Concat(_)
Concat(ss) == IF ss = <<>> THEN <<>> ELSE Head(ss) \o Concat(Tail(ss))

RawImages == {Concat(bs) : bs \in UNION {[1..n -> RawBlocks] : n \in 0..MaxBlocks}}

\* What the Decoder's sink holds when the Decoder is made: nothing (a fresh
\* file), or the bytes of a file opened without truncation.
Sinks == {<<>>, [i \in 1..(BLOCK_SIZE + 2) |-> 255]}

\* ------------------------------------------------------------------- state
VARIABLES
  phase,    \* "encode", "write", "read", "decode", "done" or "failed"
  source,   \* "encoder": the blocks come from the Encoder over raw; "caller"
  raw,      \* the raw image the Encoder reads
  enc,      \* the Encoder
  wr,       \* the Writer; wr.dst.data is the sparse image
  written,  \* the blocks passed to Writer::write_block so far
  rd,       \* the Reader
  dec,      \* the Decoder; dec.dst.data is the raw output
  prior,    \* what the Decoder's sink held when the Decoder was made
  decoded,  \* the blocks passed to Decoder::write_block so far
  sinkFails, \* the sink under the Decoder rejects every write from now on
  ret,      \* what the last call that returns a Result returned: "", "Ok", "Io"
  arg,      \* the input of the function under check
  out       \* what the function under check made of arg

vars == <<phase, source, raw, enc, wr, written, rd, dec, prior, decoded,
          sinkFails, ret, arg, out>>

\* What the pipeline of img2simg and simg2img leaves alone.
aside == <<sinkFails, ret, arg, out>>

\* The blocks the Encoder made of raw, and the blocks the Reader made of the
\* image.
EncoderBlocks == ChunksBlocks(enc.spf, raw)
ReaderBlocks == ChunksBlocks(rd.spf, wr.dst.data)

Init ==
  /\ source \in {"encoder", "caller"}
  /\ raw \in IF source = "encoder" THEN RawImages ELSE {<<>>}
  /\ phase = IF source = "encoder" THEN "encode" ELSE "write"
  /\ enc = Encoder_new
  /\ wr \in {Writer_new(<<>>), Writer_with_crc(<<>>)}
  /\ written = <<>>
  /\ rd = Reader_new
  /\ dec = Decoder_new(<<>>)
  /\ prior = <<>>
  /\ decoded = <<>>
  /\ sinkFails = FALSE
  /\ ret = ""
  /\ arg = <<>>
  /\ out = <<>>

\* img2simg: one turn of Encoder::read's loop.
EncoderRead ==
  /\ phase = "encode"
  /\ enc' = Encoder_read_turn(enc, raw)
  /\ phase' = IF enc'.done THEN "write" ELSE "encode"
  /\ UNCHANGED <<source, raw, wr, written, rd, dec, prior, decoded>>
  /\ UNCHANGED aside

\* img2simg: the next block of the Encoder goes to Writer::write_block.
WriteEncoded ==
  /\ phase = "write"
  /\ source = "encoder"
  /\ Len(written) < Len(EncoderBlocks)
  /\ LET block == EncoderBlocks[Len(written) + 1]
     IN  /\ wr' = Writer_write_block(wr, block)
         /\ written' = Append(written, block)
  /\ UNCHANGED <<phase, source, raw, enc, rd, dec, prior, decoded>>
  /\ UNCHANGED aside

\* A caller hands any block to Writer::write_block.
WriteBlock ==
  /\ phase = "write"
  /\ source = "caller"
  /\ Len(written) < MaxBlocks
  /\ \E block \in Blocks :
       /\ wr' = Writer_write_block(wr, block)
       /\ written' = Append(written, block)
  /\ UNCHANGED <<phase, source, raw, enc, rd, dec, prior, decoded>>
  /\ UNCHANGED aside

\* Writer::close
WriterClose ==
  /\ phase = "write"
  /\ source = "encoder" => Len(written) = Len(EncoderBlocks)
  /\ wr' = Writer_close(wr)
  /\ phase' = "read"
  /\ UNCHANGED <<source, raw, enc, written, rd, dec, prior, decoded>>
  /\ UNCHANGED aside

\* Reader::new or Reader::new(..).with_crc(), and Reader::read up to its loop.
ReaderOpen ==
  /\ phase = "read"
  /\ ~rd.started
  /\ \E verify \in BOOLEAN :
       rd' = Reader_read_header(IF verify THEN Reader_with_crc(Reader_new) ELSE Reader_new,
                                wr.dst.data)
  /\ phase' = IF rd'.err # "" THEN "failed" ELSE "read"
  /\ UNCHANGED <<source, raw, enc, wr, written, dec, prior, decoded>>
  /\ UNCHANGED aside

\* One turn of the loop of Reader::read, were the loop to go on after an error
ReaderReadChunk_goesOn ==
  /\ phase \in {"read", "failed"}
  /\ rd.started
  /\ rd.remaining > 0
  /\ rd' = Reader_read_chunk(rd, wr.dst.data)
  /\ phase' = IF rd'.err # "" THEN "failed" ELSE "read"
  /\ UNCHANGED <<source, raw, enc, wr, written, dec, prior, decoded>>
  /\ UNCHANGED aside

\* One turn of the loop of Reader::read.
ReaderReadChunk ==
  /\ phase = "read"
  /\ rd.started
  /\ rd.remaining > 0
  /\ rd' = Reader_read_chunk(rd, wr.dst.data)
  /\ phase' = IF rd'.err # "" THEN "failed" ELSE "read"
  /\ UNCHANGED <<source, raw, enc, wr, written, dec, prior, decoded>>
  /\ UNCHANGED aside

\* simg2img: Reader::read returned Ok; Decoder::new over the output file.
DecoderOpen ==
  /\ phase = "read"
  /\ rd.started
  /\ rd.remaining = 0
  /\ \E sink \in Sinks :
       /\ prior' = sink
       /\ dec' = Decoder_new(sink)
  /\ phase' = "decode"
  /\ UNCHANGED <<source, raw, enc, wr, written, rd, decoded>>
  /\ UNCHANGED aside

\* simg2img: the next block of the Reader goes to Decoder::write_block.
DecodeBlock ==
  /\ phase = "decode"
  /\ Len(decoded) < Len(ReaderBlocks)
  /\ LET block == ReaderBlocks[Len(decoded) + 1]
     IN  /\ dec' = Decoder_write_block(dec, block)
         /\ decoded' = Append(decoded, block)
  /\ UNCHANGED <<phase, source, raw, enc, wr, written, rd, prior>>
  /\ UNCHANGED aside

\* Decoder::close
DecoderClose ==
  /\ phase = "decode"
  /\ Len(decoded) = Len(ReaderBlocks)
  /\ dec' = Decoder_close(dec)
  /\ phase' = "done"
  /\ UNCHANGED <<source, raw, enc, wr, written, rd, prior, decoded>>
  /\ UNCHANGED aside

Next ==
  \/ EncoderRead
  \/ WriteEncoded
  \/ WriteBlock
  \/ WriterClose
  \/ ReaderOpen
  \/ ReaderReadChunk
  \/ DecoderOpen
  \/ DecodeBlock
  \/ DecoderClose

Spec == Init /\ [][Next]_vars

\* A single block is classified: the Encoder reads a raw image of one block,
\* any block of bytes 0 and 1, or one of the sample blocks.
period3 == [i \in 1..BLOCK_SIZE |-> ((i - 1) % 3) + 1]

ClassifyBlocks == [1..BLOCK_SIZE -> {0, 1}] \cup {FillBytes(fillA), raw1, period3}

InitClassify ==
  /\ source = "encoder"
  /\ raw \in ClassifyBlocks
  /\ phase = "encode"
  /\ enc = Encoder_new
  /\ wr = Writer_new(<<>>)
  /\ written = <<>>
  /\ rd = Reader_new
  /\ dec = Decoder_new(<<>>)
  /\ prior = <<>>
  /\ decoded = <<>>
  /\ sinkFails = FALSE
  /\ ret = ""
  /\ arg = <<>>
  /\ out = <<>>

NextClassify == EncoderRead

SpecClassify == InitClassify /\ [][NextClassify]_vars

\* A caller drives a Writer with any blocks and closes it.
InitWrite ==
  /\ source = "caller"
  /\ raw = <<>>
  /\ phase = "write"
  /\ enc = Encoder_new
  /\ wr \in {Writer_new(<<>>), Writer_with_crc(<<>>)}
  /\ written = <<>>
  /\ rd = Reader_new
  /\ dec = Decoder_new(<<>>)
  /\ prior = <<>>
  /\ decoded = <<>>
  /\ sinkFails = FALSE
  /\ ret = ""
  /\ arg = <<>>
  /\ out = <<>>

\* The Writer goes out of scope without close.
WriterDrop ==
  /\ phase = "write"
  /\ wr' = Writer_drop(wr)
  /\ phase' = "dropped"
  /\ UNCHANGED <<source, raw, enc, written, rd, dec, prior, decoded>>
  /\ UNCHANGED aside

NextWrite ==
  \/ WriteBlock
  \/ WriterClose
  \/ WriterDrop

SpecWrite == InitWrite /\ [][NextWrite]_vars

\* The CRC helper alone: a digest that was fed some bytes is fed one block.
FillValues == [1..WORD_SIZE -> {0, 1, 170, 255}]

DigestBlocks ==
  {Fill(v) : v \in FillValues}
    \cup {Skip, Raw(raw1), Raw(raw2), Crc32(<<0, 0>>), Crc32(crcX), Crc32(<<65535, 65535>>)}

Digests == {DigestNew, DigestWrite(DigestNew, <<1>>), DigestWrite(DigestNew, raw1)}

InitDigest ==
  /\ source = "caller"
  /\ raw = <<>>
  /\ phase = "digest"
  /\ enc = Encoder_new
  /\ wr = Writer_new(<<>>)
  /\ written = <<>>
  /\ rd = Reader_new
  /\ dec = Decoder_new(<<>>)
  /\ prior = <<>>
  /\ decoded = <<>>
  /\ sinkFails = FALSE
  /\ ret = ""
  /\ arg \in [digest : Digests, block : DigestBlocks]
  /\ out = <<>>

\* digest.write_block(block)
DigestWriteBlock ==
  /\ phase = "digest"
  /\ out' = Digest_write_block(arg.digest, arg.block)
  /\ phase' = "done"
  /\ UNCHANGED <<source, raw, enc, wr, written, rd, dec, prior, decoded, sinkFails, ret, arg>>

NextDigest == DigestWriteBlock

SpecDigest == InitDigest /\ [][NextDigest]_vars

\* A caller writes an image with any blocks, and a Reader reads it.
NextRead ==
  \/ WriteBlock
  \/ WriterClose
  \/ ReaderOpen
  \/ ReaderReadChunk

SpecRead == InitWrite /\ [][NextRead]_vars

\* A Reader over an image that is not what a Writer left: one byte of the
\* file header is another, or the image is cut short within the header.
GoodImages ==
  {Writer_close(Writer_write_block(Writer_write_block(w, Raw(raw1)), Skip)).dst.data :
     w \in {Writer_new(<<>>), Writer_with_crc(<<>>)}}

BadImages ==
  {[img EXCEPT ![i] = b] : img \in GoodImages, i \in 1..FILE_HEADER_SIZE, b \in {0, 1, 127}}
    \cup {SubSeq(img, 1, n) : img \in GoodImages, n \in 0..FILE_HEADER_SIZE - 1}

InitHeader ==
  /\ source = "caller"
  /\ raw = <<>>
  /\ phase = "read"
  /\ enc = Encoder_new
  /\ \E img \in BadImages : wr = [Writer_new(<<>>) EXCEPT !.dst.data = img]
  /\ written = <<>>
  /\ rd = Reader_new
  /\ dec = Decoder_new(<<>>)
  /\ prior = <<>>
  /\ decoded = <<>>
  /\ sinkFails = FALSE
  /\ ret = ""
  /\ arg = <<>>
  /\ out = <<>>

NextHeader ==
  \/ ReaderOpen
  \/ ReaderReadChunk

SpecHeader == InitHeader /\ [][NextHeader]_vars

\* The Encoder over raw images that end with a part of a block.
Tails == {<<>>, <<0>>, <<7>>, SubSeq(raw1, 1, BLOCK_SIZE - 1)}

PartialImages == {img \o tail : img \in RawImages, tail \in Tails}

InitPartial ==
  /\ source = "encoder"
  /\ raw \in PartialImages
  /\ phase = "encode"
  /\ enc = Encoder_new
  /\ wr = Writer_new(<<>>)
  /\ written = <<>>
  /\ rd = Reader_new
  /\ dec = Decoder_new(<<>>)
  /\ prior = <<>>
  /\ decoded = <<>>
  /\ sinkFails = FALSE
  /\ ret = ""
  /\ arg = <<>>
  /\ out = <<>>

NextPartial == EncoderRead

SpecPartial == InitPartial /\ [][NextPartial]_vars

\* Readers and Encoders that fail: a Reader over an image with a bad file
\* header, a bad checksum or a missing end, and an Encoder whose source
\* fails to read at some block.
CutImages == {SubSeq(img, 1, n) : img \in GoodImages, n \in FILE_HEADER_SIZE..FILE_HEADER_SIZE + 30}

BadCrcImages ==
  {Writer_close(Writer_write_block(Writer_write_block(Writer_new(<<>>), b), Crc32(crcX))).dst.data :
     b \in {Raw(raw1), Skip, Fill(fillA)}}

FailingImages == BadImages \cup CutImages \cup BadCrcImages

InitFailing ==
  /\ source \in {"encoder", "caller"}
  /\ raw \in IF source = "encoder" THEN RawImages ELSE {<<>>}
  /\ phase = IF source = "encoder" THEN "encode" ELSE "read"
  /\ enc = Encoder_new
  /\ \E img \in IF source = "caller" THEN FailingImages ELSE {<<>>} :
       wr = [Writer_new(<<>>) EXCEPT !.dst.data = img]
  /\ written = <<>>
  /\ rd = Reader_new
  /\ dec = Decoder_new(<<>>)
  /\ prior = <<>>
  /\ decoded = <<>>
  /\ sinkFails = FALSE
  /\ ret = ""
  /\ arg = <<>>
  /\ out = <<>>

\* Encoder::read, a turn of its loop in which the source fails to read.
EncoderReadFails ==
  /\ phase = "encode"
  /\ enc' = Encoder_read_fails(enc)
  /\ phase' = "failed"
  /\ UNCHANGED <<source, raw, wr, written, rd, dec, prior, decoded>>
  /\ UNCHANGED aside

NextFailing ==
  \/ EncoderRead
  \/ EncoderReadFails
  \/ ReaderOpen
  \/ ReaderReadChunk

SpecFailing == InitFailing /\ [][NextFailing]_vars

\* The headers alone: a header is written to bytes and read back from them.
\* The u32 fields are taken below 2^31.
FieldValues == {0, 1, 255, 256, 65535, 65536, 16777216, 2147483647}

FileHeaders ==
  [total_blocks : FieldValues, total_chunks : FieldValues, image_checksum : FieldValues]

ChunkHeaders == [chunk_type : ChunkTypes, chunk_size : FieldValues, total_size : FieldValues]

InitWire ==
  /\ source = "caller"
  /\ raw = <<>>
  /\ phase = "wire"
  /\ enc = Encoder_new
  /\ wr = Writer_new(<<>>)
  /\ written = <<>>
  /\ rd = Reader_new
  /\ dec = Decoder_new(<<>>)
  /\ prior = <<>>
  /\ decoded = <<>>
  /\ sinkFails = FALSE
  /\ ret = ""
  /\ arg \in [kind : {"file"}, header : FileHeaders]
            \cup [kind : {"chunk"}, header : ChunkHeaders]
  /\ out = <<>>

\* header.write_to(&mut bytes), then FileHeader::read_from(&bytes[..])
FileHeaderRoundTrip ==
  /\ phase = "wire"
  /\ arg.kind = "file"
  /\ LET bytes == FileHeaderBytes(arg.header)
     IN  out' = [bytes |-> bytes, back |-> FileHeaderRead(bytes, 0)]
  /\ phase' = "done"
  /\ UNCHANGED <<source, raw, enc, wr, written, rd, dec, prior, decoded, sinkFails, ret, arg>>

\* header.write_to(&mut bytes), then ChunkHeader::read_from(&bytes[..])
ChunkHeaderRoundTrip ==
  /\ phase = "wire"
  /\ arg.kind = "chunk"
  /\ LET bytes == ChunkHeaderBytes(arg.header)
     IN  out' = [bytes |-> bytes, back |-> ChunkHeaderRead(bytes, 0)]
  /\ phase' = "done"
  /\ UNCHANGED <<source, raw, enc, wr, written, rd, dec, prior, decoded, sinkFails, ret, arg>>

NextWire ==
  \/ FileHeaderRoundTrip
  \/ ChunkHeaderRoundTrip

SpecWire == InitWire /\ [][NextWire]_vars

\* A caller drives a Decoder over any sink with any blocks; the sink may
\* start to reject writes once the last block is written.
InitDecode ==
  /\ source = "caller"
  /\ raw = <<>>
  /\ phase = "decode"
  /\ enc = Encoder_new
  /\ wr = Writer_new(<<>>)
  /\ written = <<>>
  /\ rd = Reader_new
  /\ prior \in Sinks
  /\ dec = Decoder_new(prior)
  /\ decoded = <<>>
  /\ sinkFails = FALSE
  /\ ret = ""
  /\ arg = <<>>
  /\ out = <<>>

\* Decoder::write_block with any block.
DecoderWriteBlock ==
  /\ phase = "decode"
  /\ ~sinkFails
  /\ Len(decoded) < MaxBlocks
  /\ \E block \in Blocks :
       /\ dec' = Decoder_write_block(dec, block)
       /\ decoded' = Append(decoded, block)
  /\ ret' = "Ok"
  /\ UNCHANGED <<phase, source, raw, enc, wr, written, rd, prior, sinkFails, arg, out>>

\* The sink stops accepting writes (the disk is full, the pipe is closed).
SinkBreaks ==
  /\ phase = "decode"
  /\ ~sinkFails
  /\ sinkFails' = TRUE
  /\ UNCHANGED <<phase, source, raw, enc, wr, written, rd, dec, prior, decoded, ret, arg, out>>

\* Decoder::close
DecoderCloseSink ==
  /\ phase = "decode"
  /\ \E flushed \in SinkFlush(sinkFails) :
       LET r == Decoder_close_sink(dec, sinkFails, flushed)
       IN  /\ dec' = r.dec
           /\ ret' = r.ret
  /\ phase' = "done"
  /\ UNCHANGED <<source, raw, enc, wr, written, rd, prior, decoded, sinkFails, arg, out>>

NextDecode ==
  \/ DecoderWriteBlock
  \/ SinkBreaks
  \/ DecoderCloseSink

SpecDecode == InitDecode /\ [][NextDecode]_vars

\* A Reader over a source that ends early: the image a Writer left of some
\* blocks, or its first n bytes only.  arg is the whole image.
RECURSIVE Writer_write_blocks(_, _)
Writer_write_blocks(w, blocks) ==
  IF blocks = <<>> THEN w
  ELSE LET next == Writer_write_block(w, Head(blocks))
       IN  IF next.finished THEN next ELSE Writer_write_blocks(next, Tail(blocks))

CutBlocks == {Raw(raw1), Fill(fillA), Skip}

WholeImages ==
  {Writer_close(Writer_write_blocks(w, blocks)).dst.data :
     w \in {Writer_new(<<>>), Writer_with_crc(<<>>)},
     blocks \in UNION {[1..n -> CutBlocks] : n \in 0..MaxBlocks - 1}}

InitCut ==
  /\ source = "caller"
  /\ raw = <<>>
  /\ phase = "read"
  /\ enc = Encoder_new
  /\ arg \in WholeImages
  /\ \E n \in 0..Len(arg) : wr = [Writer_new(<<>>) EXCEPT !.dst.data = SubSeq(arg, 1, n)]
  /\ written = <<>>
  /\ rd = Reader_new
  /\ dec = Decoder_new(<<>>)
  /\ prior = <<>>
  /\ decoded = <<>>
  /\ sinkFails = FALSE
  /\ ret = ""
  /\ out = <<>>

SpecCut == InitCut /\ [][NextHeader]_vars

\* A caller drives a Writer over a sink that may reject writes for a while,
\* and discards the Writer once a call has failed.
WriteBlockSink ==
  /\ phase = "write"
  /\ ret # "Io"
  /\ Len(written) < MaxBlocks
  /\ \E block \in Blocks :
       LET r == Writer_write_block_io(wr, block, sinkFails)
       IN  /\ wr' = r.w
           /\ ret' = IF r.ok THEN "Ok" ELSE "Io"
           /\ written' = Append(written, block)
  /\ UNCHANGED <<phase, source, raw, enc, rd, dec, prior, decoded, sinkFails, arg, out>>

\* The sink starts to reject writes, or accepts them again (a full disk that
\* space is freed on).
SinkTurns ==
  /\ phase = "write"
  /\ sinkFails' = ~sinkFails
  /\ UNCHANGED <<phase, source, raw, enc, wr, written, rd, dec, prior, decoded, ret, arg, out>>

\* Writer::close, until finish has returned; self is dropped next.
WriterCloseSink ==
  /\ phase = "write"
  /\ ret # "Io"
  /\ LET r == Writer_finish_io(wr, sinkFails)
     IN  /\ wr' = r.w
         /\ ret' = IF r.ok THEN "Ok" ELSE "Io"
  /\ phase' = "closing"
  /\ UNCHANGED <<source, raw, enc, written, rd, dec, prior, decoded, sinkFails, arg, out>>

\* The Writer is dropped: at the end of close, or by a caller that discards it.
WriterDropSink ==
  /\ phase \in {"write", "closing"}
  /\ wr' = Writer_drop_io(wr, sinkFails)
  /\ phase' = "dropped"
  /\ UNCHANGED <<source, raw, enc, written, rd, dec, prior, decoded, sinkFails, ret, arg, out>>

NextSink ==
  \/ WriteBlockSink
  \/ SinkTurns
  \/ WriterCloseSink
  \/ WriterDropSink

SpecSink == InitWrite /\ [][NextSink]_vars

\* The Encoder alone over raw images of whole blocks, fills of two values
\* among them.
EncodeBlocks == RawBlocks \cup {FillBytes(fillB)}

EncodeImages == {Concat(bs) : bs \in UNION {[1..n -> EncodeBlocks] : n \in 0..MaxBlocks}}

InitEncode ==
  /\ source = "encoder"
  /\ raw \in EncodeImages
  /\ phase = "encode"
  /\ enc = Encoder_new
  /\ wr = Writer_new(<<>>)
  /\ written = <<>>
  /\ rd = Reader_new
  /\ dec = Decoder_new(<<>>)
  /\ prior = <<>>
  /\ decoded = <<>>
  /\ sinkFails = FALSE
  /\ ret = ""
  /\ arg = <<>>
  /\ out = <<>>

NextEncode == EncoderRead

SpecEncode == InitEncode /\ [][NextEncode]_vars

\* A Reader over a well-formed image that bytes follow: none, one byte, or
\* what reads as one more chunk record.  arg is the image without them.
Trails == {<<>>, <<7>>,
           ChunkHeaderBytes([chunk_type |-> "DontCare", chunk_size |-> 1,
                             total_size |-> CHUNK_HEADER_SIZE])}

InitTrail ==
  /\ source = "caller"
  /\ raw = <<>>
  /\ phase = "read"
  /\ enc = Encoder_new
  /\ arg \in WholeImages
  /\ \E tail \in Trails : wr = [Writer_new(<<>>) EXCEPT !.dst.data = arg \o tail]
  /\ written = <<>>
  /\ rd = Reader_new
  /\ dec = Decoder_new(<<>>)
  /\ prior = <<>>
  /\ decoded = <<>>
  /\ sinkFails = FALSE
  /\ ret = ""
  /\ out = <<>>

SpecTrail == InitTrail /\ [][NextHeader]_vars

\* A Reader over images no Writer leaves: chunk records of no blocks among
\* records of one block.  arg is the records, each a header and a body.
fillC == <<1, 2, 3, 4>>

Record(chunk_type, chunk_size, body) ==
  [header |-> [chunk_type |-> chunk_type, chunk_size |-> chunk_size,
               total_size |-> CHUNK_HEADER_SIZE + Len(body)],
   body |-> body]

Records ==
  {Record("Raw", 0, <<>>), Record("Fill", 0, fillC), Record("DontCare", 0, <<>>),
   Record("Raw", 1, raw1), Record("Fill", 1, fillC), Record("DontCare", 1, <<>>)}

RECURSIVE TotalBlocksOf(_)
TotalBlocksOf(records) ==
  IF records = <<>> THEN 0
  ELSE Head(records).header.chunk_size + TotalBlocksOf(Tail(records))

RecordsImage(records) ==
  FileHeaderBytes([total_blocks |-> TotalBlocksOf(records),
                   total_chunks |-> Len(records),
                   image_checksum |-> 0])
    \o Concat([k \in 1..Len(records) |->
                 ChunkHeaderBytes(records[k].header) \o records[k].body])

InitZero ==
  /\ source = "caller"
  /\ raw = <<>>
  /\ phase = "read"
  /\ enc = Encoder_new
  /\ arg \in UNION {[1..n -> Records] : n \in 0..MaxBlocks}
  /\ wr = [Writer_new(<<>>) EXCEPT !.dst.data = RecordsImage(arg)]
  /\ written = <<>>
  /\ rd = Reader_new
  /\ dec = Decoder_new(<<>>)
  /\ prior = <<>>
  /\ decoded = <<>>
  /\ sinkFails = FALSE
  /\ ret = ""
  /\ out = <<>>

SpecZero == InitZero /\ [][NextHeader]_vars

\* FileHeader::read_from alone, over the 28 bytes of any nine fields: each of
\* the five that are checked is the format's or another value, the three
\* counts are anything.
WireFields ==
  [magic : {FILE_MAGIC, <<0, 0>>, <<60710, 65339>>, <<65338, 60710>>},
   major : {1, 0, 2},
   minor : {0, 1},
   file_header_size : {FILE_HEADER_SIZE, 0, 32},
   chunk_header_size : {CHUNK_HEADER_SIZE, 0, 16},
   block_size : {BLOCK_SIZE, 0, 2 * BLOCK_SIZE, BLOCK_SIZE + 256},
   total_blocks : {0, 1, 2147483647},
   total_chunks : {0, 1, 2147483647},
   image_checksum : {0, 2147483647}]

\* The bytes a source holds for the nine fields, little-endian.
WireBytes(f) ==
  LE32H(f.magic) \o LE16(f.major) \o LE16(f.minor)
    \o LE16(f.file_header_size) \o LE16(f.chunk_header_size) \o LE32(f.block_size)
    \o LE32(f.total_blocks) \o LE32(f.total_chunks) \o LE32(f.image_checksum)

InitParse ==
  /\ source = "caller"
  /\ raw = <<>>
  /\ phase = "parse"
  /\ enc = Encoder_new
  /\ wr = Writer_new(<<>>)
  /\ written = <<>>
  /\ rd = Reader_new
  /\ dec = Decoder_new(<<>>)
  /\ prior = <<>>
  /\ decoded = <<>>
  /\ sinkFails = FALSE
  /\ ret = ""
  /\ arg \in WireFields
  /\ out = <<>>

\* FileHeader::read_from(&bytes[..])
FileHeaderParse ==
  /\ phase = "parse"
  /\ out' = FileHeaderRead(WireBytes(arg), 0)
  /\ phase' = "done"
  /\ UNCHANGED <<source, raw, enc, wr, written, rd, dec, prior, decoded, sinkFails, ret, arg>>

NextParse == FileHeaderParse

SpecParse == InitParse /\ [][NextParse]_vars

\* ChunkHeader::read_from alone, over the 12 bytes of any four fields: every
\* 16-bit magic with one setting of the other fields, and the four magics and
\* some others with any reserved value and any pair of sizes, consistent with
\* the chunk type or not.
MagicValues == 0 .. 65535

ChunkWireFields ==
  [magic : MagicValues, reserved : {0}, chunk_size : {1}, total_size : {20}]
    \cup [magic : {CHUNK_MAGIC_RAW, CHUNK_MAGIC_FILL, CHUNK_MAGIC_DONT_CARE,
                   CHUNK_MAGIC_CRC32, 0, 193, 51712, 51909},
          reserved : {0, 1, 51905, 65535},
          chunk_size : {0, 1, 2147483647},
          total_size : {0, CHUNK_HEADER_SIZE, CHUNK_HEADER_SIZE + BLOCK_SIZE, 2147483647}]

\* The bytes a source holds for the four fields, little-endian.
ChunkWireBytes(f) ==
  LE16(f.magic) \o LE16(f.reserved) \o LE32(f.chunk_size) \o LE32(f.total_size)

InitChunkParse ==
  /\ source = "caller"
  /\ raw = <<>>
  /\ phase = "chunkparse"
  /\ enc = Encoder_new
  /\ wr = Writer_new(<<>>)
  /\ written = <<>>
  /\ rd = Reader_new
  /\ dec = Decoder_new(<<>>)
  /\ prior = <<>>
  /\ decoded = <<>>
  /\ sinkFails = FALSE
  /\ ret = ""
  /\ arg \in ChunkWireFields
  /\ out = <<>>

\* ChunkHeader::read_from(&bytes[..])
ChunkHeaderParse ==
  /\ phase = "chunkparse"
  /\ out' = ChunkHeaderRead(ChunkWireBytes(arg), 0)
  /\ phase' = "done"
  /\ UNCHANGED <<source, raw, enc, wr, written, rd, dec, prior, decoded, sinkFails, ret, arg>>

NextChunkParse == ChunkHeaderParse

SpecChunkParse == InitChunkParse /\ [][NextChunkParse]_vars

\* A Reader, verifying or not, over images whose Crc32 chunks carry the CRC32
\* of the data before them or another value, under a file header with any
\* image_checksum.  arg is the chunk types in turn, what the Crc32 chunks
\* carry, and the image_checksum.
CrcShapes == UNION {[1..n -> ChunkTypes] : n \in 0..MaxBlocks}

DataRecord(chunk_type) ==
  CASE chunk_type = "Raw" -> Record("Raw", 1, raw1)
    [] chunk_type = "Fill" -> Record("Fill", 1, fillC)
    [] chunk_type = "DontCare" -> Record("DontCare", 1, <<>>)

\* The raw-image bytes of the chunks before the k-th.
DataBytesBefore(shape, k) ==
  Concat([j \in 1..k - 1 |->
            CASE shape[j] = "Raw" -> raw1
              [] shape[j] = "Fill" -> FillBytes(fillC)
              [] shape[j] = "DontCare" -> Zeros(BLOCK_SIZE)
              [] shape[j] = "Crc32" -> <<>>])

\* The value the k-th chunk, a Crc32 chunk, carries.
CrcCarried(shape, crc, k) ==
  CASE crc = "right" -> DigestSum32(DigestWrite(DigestNew, DataBytesBefore(shape, k)))
    [] crc = "zero" -> <<0, 0>>
    [] crc = "other" -> crcX

CrcRecords(shape, crc) ==
  [k \in 1..Len(shape) |->
     IF shape[k] = "Crc32" THEN Record("Crc32", 0, LE32H(CrcCarried(shape, crc, k)))
     ELSE DataRecord(shape[k])]

\* The image of the records under a file header with image_checksum.
ChecksumImage(records, image_checksum) ==
  FileHeaderBytes([total_blocks |-> TotalBlocksOf(records),
                   total_chunks |-> Len(records),
                   image_checksum |-> image_checksum])
    \o Concat([k \in 1..Len(records) |->
                 ChunkHeaderBytes(records[k].header) \o records[k].body])

CrcImage(a) == ChecksumImage(CrcRecords(a.shape, a.crc), a.image_checksum)

InitCrc ==
  /\ source = "caller"
  /\ raw = <<>>
  /\ phase = "read"
  /\ enc = Encoder_new
  /\ arg \in [shape : CrcShapes, crc : {"right", "zero", "other"},
              image_checksum : {0, 1, 305419896}]
  /\ wr = [Writer_new(<<>>) EXCEPT !.dst.data = CrcImage(arg)]
  /\ written = <<>>
  /\ rd = Reader_new
  /\ dec = Decoder_new(<<>>)
  /\ prior = <<>>
  /\ decoded = <<>>
  /\ sinkFails = FALSE
  /\ ret = ""
  /\ out = <<>>

SpecCrc == InitCrc /\ [][NextHeader]_vars

\* The Writer far into a run of Raw blocks.  The chunk's total_size is a u32
\* of bytes and a multiple of 4 here (only Raw and Skip blocks are written),
\* so it is counted in 4-byte words modulo U32_WORDS, which is the u32
\* arithmetic exactly; the sink is its position alone, in words, and slot is
\* where the open chunk's header belongs.  `total_size += Block::SIZE`
\* overflows at U32_WORDS: a build with overflow checks panics there, and the
\* Writer is dropped as the panic unwinds; a build without wraps.
U32_WORDS == 2^30

FILE_HEADER_WORDS == FILE_HEADER_SIZE \div WORD_SIZE

CHUNK_HEADER_WORDS == CHUNK_HEADER_SIZE \div WORD_SIZE

\* The longest run of Raw blocks whose total_size is below 2^32.
LongestRun == (U32_WORDS - 1 - CHUNK_HEADER_WORDS) \div WordsPerBlock

\* Writer::new
LongRun_new ==
  [current_chunk |-> NoChunk, pos |-> FILE_HEADER_WORDS, slot |-> 0, num_chunks |-> 0,
   patched |-> <<>>, finished |-> FALSE, panicked |-> FALSE]

\* Writer::new and n Raw blocks written, n <= LongestRun.
LongRun_after(n) ==
  IF n = 0 THEN LongRun_new
  ELSE [LongRun_new EXCEPT
          !.current_chunk = [chunk_type |-> "Raw", chunk_size |-> n,
                             total_size |-> CHUNK_HEADER_WORDS + n * WordsPerBlock],
          !.slot = FILE_HEADER_WORDS,
          !.pos = FILE_HEADER_WORDS + CHUNK_HEADER_WORDS + n * WordsPerBlock]

\* Writer::can_merge, for Raw and Skip blocks
LongRun_can_merge(w, block) ==
  \/ w.current_chunk.chunk_type = "Raw" /\ block.type = "Raw"
  \/ w.current_chunk.chunk_type = "DontCare" /\ block.type = "Skip"

\* Writer::start_chunk, for Raw and Skip blocks
LongRun_start_chunk(w, block) ==
  [w EXCEPT !.slot = w.pos,
            !.pos = @ + CHUNK_HEADER_WORDS,
            !.current_chunk = [chunk_type |-> IF block.type = "Raw" THEN "Raw" ELSE "DontCare",
                               chunk_size |-> 0,
                               total_size |-> CHUNK_HEADER_WORDS]]

\* Writer::finish_chunk: the header goes total_size back from where the sink
\* stands, and the sink is put back there.
LongRun_finish_chunk(w) ==
  IF w.current_chunk = NoChunk THEN w
  ELSE [w EXCEPT !.current_chunk = NoChunk,
                 !.num_chunks = @ + 1,
                 !.patched = Append(@, [header |-> w.current_chunk,
                                        at |-> w.pos - w.current_chunk.total_size,
                                        slot |-> w.slot])]

\* Writer::write_block, for Raw and Skip blocks
LongRun_write_block(w, block, build) ==
  LET w1 == IF LongRun_can_merge(w, block) THEN w
            ELSE LongRun_start_chunk(LongRun_finish_chunk(w), block)
      sum == w1.current_chunk.total_size + WordsPerBlock
  IN  IF block.type = "Skip" THEN [w1 EXCEPT !.current_chunk.chunk_size = @ + 1]
      ELSE IF sum >= U32_WORDS /\ build = "debug"
        THEN [w1 EXCEPT !.pos = @ + WordsPerBlock, !.panicked = TRUE]
      ELSE [w1 EXCEPT !.pos = @ + WordsPerBlock,
                      !.current_chunk.total_size = sum % U32_WORDS,
                      !.current_chunk.chunk_size = @ + 1]

\* Writer::finish, without a checksum
LongRun_finish(w) == [LongRun_finish_chunk([w EXCEPT !.finished = TRUE]) EXCEPT !.pos = FILE_HEADER_WORDS]

\* Drop for Writer
LongRun_drop(w) == IF w.finished THEN w ELSE LongRun_finish(w)

InitLongRun ==
  /\ source = "caller"
  /\ raw = <<>>
  /\ phase = "run"
  /\ enc = Encoder_new
  /\ wr = Writer_new(<<>>)
  /\ written = <<>>
  /\ rd = Reader_new
  /\ dec = Decoder_new(<<>>)
  /\ prior = <<>>
  /\ decoded = <<>>
  /\ sinkFails = FALSE
  /\ ret = ""
  /\ arg \in [build : {"debug", "release"},
              run : {0, 1, LongestRun - 2, LongestRun - 1, LongestRun}]
  /\ out = LongRun_after(arg.run)

\* Writer::write_block with one more Raw or Skip block
LongRunWriteBlock ==
  /\ phase = "run"
  /\ Len(written) < MaxBlocks
  /\ \E block \in {Raw(raw1), Skip} :
       /\ out' = LongRun_write_block(out, block, arg.build)
       /\ written' = Append(written, block)
  /\ phase' = IF out'.panicked THEN "panic" ELSE "run"
  /\ UNCHANGED <<source, raw, enc, wr, rd, dec, prior, decoded, sinkFails, ret, arg>>

\* Writer::close, or the Writer dropped as a panic unwinds
LongRunClose ==
  /\ phase \in {"run", "panic"}
  /\ out' = LongRun_drop(IF phase = "run" THEN LongRun_finish(out) ELSE out)
  /\ phase' = "closed"
  /\ UNCHANGED <<source, raw, enc, wr, written, rd, dec, prior, decoded, sinkFails, ret, arg>>

NextLongRun ==
  \/ LongRunWriteBlock
  \/ LongRunClose

SpecLongRun == InitLongRun /\ [][NextLongRun]_vars

\* The Reader at a chunk of very many blocks.  The source is its position
\* alone, in 4-byte words, and long enough for the chunk; the digest is the
\* number of 4-byte words fed to it.  `num_blocks * BLOCK_SIZE` is a u32
\* product, in words a product modulo U32_WORDS: a build with overflow checks
\* panics when it overflows, a build without wraps.  arg is the chunk header
\* read, the build and whether the Reader verifies.
WrapBlocks == (U32_WORDS + WordsPerBlock - 1) \div WordsPerBlock

LongChunkSizes == {0, 1, MaxBlocks, WrapBlocks - 1, WrapBlocks, WrapBlocks + 1, WrapBlocks + MaxBlocks}

\* Reader::read_chunk up to its match: the chunk header is read.
LongRead_new(verify) ==
  [pos |-> FILE_HEADER_WORDS + CHUNK_HEADER_WORDS, crc |-> verify, fed |-> 0,
   panicked |-> FALSE]

\* Reader::read_raw_chunk
LongRead_raw_chunk(r, num_blocks, build) ==
  IF r.crc
    THEN [r EXCEPT !.pos = @ + num_blocks * WordsPerBlock,
                   !.fed = @ + num_blocks * WordsPerBlock]
    ELSE IF num_blocks * WordsPerBlock >= U32_WORDS /\ build = "debug"
      THEN [r EXCEPT !.panicked = TRUE]
      ELSE [r EXCEPT !.pos = @ + ((num_blocks * WordsPerBlock) % U32_WORDS)]

\* Reader::read_fill_chunk
LongRead_fill_chunk(r, num_blocks, build) ==
  IF ~r.crc THEN [r EXCEPT !.pos = @ + 1]
  ELSE IF num_blocks * WordsPerBlock >= U32_WORDS /\ build = "debug"
    THEN [r EXCEPT !.pos = @ + 1, !.panicked = TRUE]
    ELSE [r EXCEPT !.pos = @ + 1,
                   !.fed = @ + ((num_blocks * WordsPerBlock) % U32_WORDS)]

\* Reader::read_dont_care_chunk
LongRead_dont_care_chunk(r, num_blocks) ==
  IF r.crc THEN [r EXCEPT !.fed = @ + num_blocks * WordsPerBlock] ELSE r

InitLongRead ==
  /\ source = "caller"
  /\ raw = <<>>
  /\ phase = "chunk"
  /\ enc = Encoder_new
  /\ wr = Writer_new(<<>>)
  /\ written = <<>>
  /\ rd = Reader_new
  /\ dec = Decoder_new(<<>>)
  /\ prior = <<>>
  /\ decoded = <<>>
  /\ sinkFails = FALSE
  /\ ret = ""
  /\ arg \in [build : {"debug", "release"}, verify : BOOLEAN,
              chunk_type : {"Raw", "Fill", "DontCare"}, chunk_size : LongChunkSizes]
  /\ out = LongRead_new(arg.verify)

\* Reader::read_chunk from its match on
LongReadChunk ==
  /\ phase = "chunk"
  /\ out' = CASE arg.chunk_type = "Raw" -> LongRead_raw_chunk(out, arg.chunk_size, arg.build)
              [] arg.chunk_type = "Fill" -> LongRead_fill_chunk(out, arg.chunk_size, arg.build)
              [] arg.chunk_type = "DontCare" -> LongRead_dont_care_chunk(out, arg.chunk_size)
  /\ phase' = IF out'.panicked THEN "panic" ELSE "chunk read"
  /\ UNCHANGED <<source, raw, enc, wr, written, rd, dec, prior, decoded, sinkFails, ret, arg>>

NextLongRead == LongReadChunk

SpecLongRead == InitLongRead /\ [][NextLongRead]_vars

\* A caller that goes on writing to a Writer after write_block has failed.
WriteBlockAgain ==
  /\ phase = "write"
  /\ ret = "Io"
  /\ Len(written) < MaxBlocks
  /\ \E block \in Blocks :
       LET r == Writer_write_block_io(wr, block, sinkFails)
       IN  /\ wr' = r.w
           /\ ret' = IF r.ok THEN "Ok" ELSE "Io"
           /\ written' = Append(written, block)
  /\ UNCHANGED <<phase, source, raw, enc, rd, dec, prior, decoded, sinkFails, arg, out>>

NextRetry ==
  \/ WriteBlockSink
  \/ WriteBlockAgain
  \/ SinkTurns
  \/ WriterCloseSink
  \/ WriterDropSink

SpecRetry == InitWrite /\ [][NextRetry]_vars

\* A caller builds a sparse File with any calls of add_raw, add_fill,
\* add_dont_care and add_crc32, with sizes that are multiples of the block
\* size (0 among them) or not.  out is the File, the last call's size and
\* result, the chunks before it, and the sum of the sizes accepted so far.
FileSizes == {0, BLOCK_SIZE, 2 * BLOCK_SIZE, BLOCK_SIZE + 1, 3}

FileBufs == {<<>>, raw1, raw1 \o raw2, SubSeq(raw1, 1, 3), raw1 \o <<9>>}

FileCalled(r, size) ==
  [f |-> r.f, ok |-> r.ok, size |-> size, before |-> out.f.chunks,
   accepted |-> out.accepted + (IF r.ok THEN size ELSE 0), calls |-> out.calls + 1]

InitFile ==
  /\ source = "caller"
  /\ raw = <<>>
  /\ phase = "file"
  /\ enc = Encoder_new
  /\ wr = Writer_new(<<>>)
  /\ written = <<>>
  /\ rd = Reader_new
  /\ dec = Decoder_new(<<>>)
  /\ prior = <<>>
  /\ decoded = <<>>
  /\ sinkFails = FALSE
  /\ ret = ""
  /\ arg = <<>>
  /\ out = [f |-> File_new(BLOCK_SIZE), ok |-> TRUE, size |-> 0, before |-> <<>>,
            accepted |-> 0, calls |-> 0]

FileAddRaw ==
  /\ phase = "file"
  /\ out.calls < MaxBlocks
  /\ \E buf \in FileBufs : out' = FileCalled(File_add_raw(out.f, buf), Len(buf))
  /\ UNCHANGED <<phase, source, raw, enc, wr, written, rd, dec, prior, decoded, sinkFails, ret, arg>>

FileAddFill ==
  /\ phase = "file"
  /\ out.calls < MaxBlocks
  /\ \E fill \in {fillA, fillB}, size \in FileSizes :
       out' = FileCalled(File_add_fill(out.f, fill, size), size)
  /\ UNCHANGED <<phase, source, raw, enc, wr, written, rd, dec, prior, decoded, sinkFails, ret, arg>>

FileAddDontCare ==
  /\ phase = "file"
  /\ out.calls < MaxBlocks
  /\ \E size \in FileSizes : out' = FileCalled(File_add_dont_care(out.f, size), size)
  /\ UNCHANGED <<phase, source, raw, enc, wr, written, rd, dec, prior, decoded, sinkFails, ret, arg>>

FileAddCrc32 ==
  /\ phase = "file"
  /\ out.calls < MaxBlocks
  /\ out' = FileCalled(File_add_crc32(out.f, crcX), 0)
  /\ UNCHANGED <<phase, source, raw, enc, wr, written, rd, dec, prior, decoded, sinkFails, ret, arg>>

NextFile ==
  \/ FileAddRaw
  \/ FileAddFill
  \/ FileAddDontCare
  \/ FileAddCrc32

SpecFile == InitFile /\ [][NextFile]_vars

\* The two Decoders side by side on fresh empty sinks.  Each block goes to
\* the seek-based Decoder as it is and into a File as the chunk of one block
\* it stands for (as the earlier Reader adds a chunk it has read); at the
\* end the one is closed and the other writes the File.  out is the File,
\* and then the earlier Decoder's output with it.
File_add_block(f, block) ==
  CASE block.type = "Raw" -> File_add_raw(f, block.data)
    [] block.type = "Fill" -> File_add_fill(f, block.data, f.block_size)
    [] block.type = "Skip" -> File_add_dont_care(f, f.block_size)
    [] block.type = "Crc32" -> File_add_crc32(f, block.data)

InitBoth ==
  /\ source = "caller"
  /\ raw = <<>>
  /\ phase = "decode"
  /\ enc = Encoder_new
  /\ wr = Writer_new(<<>>)
  /\ written = <<>>
  /\ rd = Reader_new
  /\ prior = <<>>
  /\ dec = Decoder_new(<<>>)
  /\ decoded = <<>>
  /\ sinkFails = FALSE
  /\ ret = ""
  /\ arg = <<>>
  /\ out = [f |-> File_new(BLOCK_SIZE), old |-> <<>>]

\* Decoder::write_block of write.rs, and File::add_* with the same content
BothTakeBlock ==
  /\ phase = "decode"
  /\ Len(decoded) < MaxBlocks
  /\ \E block \in Blocks :
       /\ dec' = Decoder_write_block(dec, block)
       /\ out' = [out EXCEPT !.f = File_add_block(@, block).f]
       /\ decoded' = Append(decoded, block)
  /\ UNCHANGED <<phase, source, raw, enc, wr, written, rd, prior, sinkFails, ret, arg>>

\* Decoder::close of write.rs, and Decoder::write of decoder.rs
BothFinish ==
  /\ phase = "decode"
  /\ dec' = Decoder_close(dec)
  /\ out' = [out EXCEPT !.old = Decoder_write(<<>>, out.f)]
  /\ phase' = "done"
  /\ UNCHANGED <<source, raw, enc, wr, written, rd, prior, decoded, sinkFails, ret, arg>>

NextBoth ==
  \/ BothTakeBlock
  \/ BothFinish

SpecBoth == InitBoth /\ [][NextBoth]_vars

\* One Decoder taking the blocks of image A and then those of image B, next
\* to a Decoder of its own for each image, all three on fresh empty sinks.
\* arg is the blocks of the two images, out the two Decoders apart.
InitConcat ==
  /\ source = "caller"
  /\ raw = <<>>
  /\ phase = "imageA"
  /\ enc = Encoder_new
  /\ wr = Writer_new(<<>>)
  /\ written = <<>>
  /\ rd = Reader_new
  /\ prior = <<>>
  /\ dec = Decoder_new(<<>>)
  /\ decoded = <<>>
  /\ sinkFails = FALSE
  /\ ret = ""
  /\ arg = [a |-> <<>>, b |-> <<>>]
  /\ out = [a |-> Decoder_new(<<>>), b |-> Decoder_new(<<>>)]

\* Decoder::write_block with a block of image A
ConcatTakeA ==
  /\ phase = "imageA"
  /\ Len(decoded) < MaxBlocks
  /\ \E block \in Blocks :
       /\ dec' = Decoder_write_block(dec, block)
       /\ out' = [out EXCEPT !.a = Decoder_write_block(@, block)]
       /\ arg' = [arg EXCEPT !.a = Append(@, block)]
       /\ decoded' = Append(decoded, block)
  /\ UNCHANGED <<phase, source, raw, enc, wr, written, rd, prior, sinkFails, ret>>

\* The reader pipeline of image A ends and that of image B begins.
ConcatNextImage ==
  /\ phase = "imageA"
  /\ phase' = "imageB"
  /\ UNCHANGED <<source, raw, enc, wr, written, rd, dec, prior, decoded, sinkFails, ret,
                 arg, out>>

\* Decoder::write_block with a block of image B
ConcatTakeB ==
  /\ phase = "imageB"
  /\ Len(decoded) < MaxBlocks
  /\ \E block \in Blocks :
       /\ dec' = Decoder_write_block(dec, block)
       /\ out' = [out EXCEPT !.b = Decoder_write_block(@, block)]
       /\ arg' = [arg EXCEPT !.b = Append(@, block)]
       /\ decoded' = Append(decoded, block)
  /\ UNCHANGED <<phase, source, raw, enc, wr, written, rd, prior, sinkFails, ret>>

\* Decoder::close
ConcatClose ==
  /\ phase = "imageB"
  /\ dec' = Decoder_close(dec)
  /\ out' = [a |-> Decoder_close(out.a), b |-> Decoder_close(out.b)]
  /\ phase' = "done"
  /\ UNCHANGED <<source, raw, enc, wr, written, rd, prior, decoded, sinkFails, ret, arg>>

NextConcat ==
  \/ ConcatTakeA
  \/ ConcatNextImage
  \/ ConcatTakeB
  \/ ConcatClose

SpecConcat == InitConcat /\ [][NextConcat]_vars

\* ---------------------------------------------------------------- claims
\* The bytes a data block stands for in the raw image; none for Crc32.
BlockBytes(block) ==
  CASE block.type = "Raw" -> block.data
    [] block.type = "Fill" -> FillBytes(block.data)
    [] block.type = "Skip" -> Zeros(BLOCK_SIZE)
    [] block.type = "Crc32" -> <<>>

IsData(block) == block.type # "Crc32"

DataBlocks(blocks) == SelectSeq(blocks, IsData)

\* The IEEE CRC32 of the raw-image bytes of the data blocks of `blocks`.
CrcOfBlocks(blocks) ==
  DigestWrite(DigestNew, Concat([i \in 1..Len(blocks) |-> BlockBytes(blocks[i])]))

\* The chunk records of an image, walked from offset 28 by their total_size,
\* each with the offset of its header and the first four bytes of its body.
RECURSIVE WalkChunks(_, _)
WalkChunks(data, pos) ==
  IF pos >= Len(data) THEN <<>>
  ELSE LET h == ChunkHeaderRead(data, pos)
       IN  IF h.err # "" \/ h.header.total_size < CHUNK_HEADER_SIZE
             THEN <<[header |-> NoChunk, at |-> pos, body4 |-> <<>>]>>
             ELSE <<[header |-> h.header, at |-> pos,
                     body4 |-> ReadExact(data, pos + CHUNK_HEADER_SIZE, 4)]>>
                  \o WalkChunks(data, pos + h.header.total_size)

ImageChunks == WalkChunks(wr.dst.data, FILE_HEADER_SIZE)

RECURSIVE SumChunkSize(_)
SumChunkSize(cs) ==
  IF cs = <<>> THEN 0
  ELSE (IF Head(cs).header.chunk_type = "Crc32" THEN 0 ELSE Head(cs).header.chunk_size)
       + SumChunkSize(Tail(cs))

WriterClosed == wr.finished
WithCrc == wr.crc # <<>>
ReaderDone == rd.started /\ rd.err = "" /\ rd.remaining = 0

\* C1: a raw image of whole blocks that goes through the Encoder, the Writer,
\* the Reader and the Decoder into a fresh empty sink comes out, after close,
\* as exactly the same bytes.
C1_RoundTripRaw ==
  (phase = "done" /\ source = "encoder" /\ prior = <<>> /\ Len(raw) % BLOCK_SIZE = 0)
    => dec.dst.data = raw

C1_Witness ==
  /\ phase = "done" /\ source = "encoder" /\ prior = <<>>
  /\ raw = raw1 \o FillBytes(fillA) \o Zeros(BLOCK_SIZE)
  /\ dec.dst.data = raw

WellChecksummed(blocks) ==
  \A i \in 1..Len(blocks) :
    blocks[i].type = "Crc32" => blocks[i].data = CrcOfBlocks(SubSeq(blocks, 1, i - 1))

\* C3, as claimed: whatever blocks (Crc32 blocks among them) went through a
\* Writer with CRC, a verifying Reader reports no checksum error.
C3_AnyBlocksNoChecksumError ==
  (WithCrc /\ rd.crc # <<>>) => rd.err # "Checksum does not match"

\* C3, amended: when every Crc32 block the caller wrote carries the CRC32 of
\* the data blocks before it (as when it wrote none), a verifying Reader over
\* the output of a Writer with CRC reports no error, and reads every chunk.
C3_NoChecksumError ==
  (WithCrc /\ rd.started /\ rd.crc # <<>> /\ WellChecksummed(written)) => rd.err = ""

C3_Witness ==
  /\ WithCrc /\ rd.crc # <<>> /\ ReaderDone
  /\ written = <<Crc32(<<0, 0>>), Raw(raw1), Skip>>

\* C4: after close the FileHeader at offset 0 has total_blocks equal to the sum
\* of chunk_size over the non-Crc32 chunks of the image, which is the number
\* of Raw, Fill and Skip blocks written; total_chunks equal to the number of
\* chunk records of the image; and image_checksum 0, with and without CRC.
C4_FileHeaderCounts ==
  WriterClosed =>
    LET h == FileHeaderRead(wr.dst.data, 0)
        chunks == ImageChunks
    IN  /\ h.err = ""
        /\ h.header.total_blocks = SumChunkSize(chunks)
        /\ h.header.total_blocks = Len(DataBlocks(written))
        /\ h.header.total_chunks = Len(chunks)
        /\ h.header.image_checksum = 0

C4_Witness ==
  /\ WriterClosed /\ WithCrc
  /\ written = <<Skip, Skip, Raw(raw2)>>
  /\ FileHeaderRead(wr.dst.data, 0).header
       = [total_blocks |-> 3, total_chunks |-> 3, image_checksum |-> 0]

\* total_size == 12 + body size, by chunk type.
HeaderSized(h) ==
  CASE h.chunk_type = "Raw" ->
         h.chunk_size >= 1 /\ h.total_size = 12 + h.chunk_size * BLOCK_SIZE
    [] h.chunk_type = "Fill" -> h.chunk_size >= 1 /\ h.total_size = 16
    [] h.chunk_type = "DontCare" -> h.chunk_size >= 1 /\ h.total_size = 12
    [] h.chunk_type = "Crc32" -> h.chunk_size = 0 /\ h.total_size = 16
    [] OTHER -> FALSE

\* C5: every chunk header the Writer back-patches has total_size 12 plus the
\* size of its body (Raw: chunk_size blocks, Fill: 4, DontCare: 0, Crc32: 4),
\* chunk_size 0 for Crc32 and at least 1 for the others; the headers found in
\* the closed image are those.
C5_ChunkHeaderSizes ==
  /\ \A i \in 1..Len(wr.patched) : HeaderSized(wr.patched[i].header)
  /\ WriterClosed =>
       LET chunks == ImageChunks
       IN  /\ Len(chunks) = Len(wr.patched)
           /\ \A i \in 1..Len(chunks) : chunks[i].header = wr.patched[i].header

C5_Witness ==
  /\ WriterClosed /\ WithCrc
  /\ written = <<Raw(raw1), Raw(raw2), Fill(fillB)>>
  /\ wr.patched[1].header
       = [chunk_type |-> "Raw", chunk_size |-> 2, total_size |-> 12 + 2 * BLOCK_SIZE]
  /\ Len(wr.patched) = 3

\* Two blocks the Writer is to put into one chunk.
Like(a, b) ==
  \/ a.type = "Raw" /\ b.type = "Raw"
  \/ a.type = "Skip" /\ b.type = "Skip"
  \/ a.type = "Fill" /\ b.type = "Fill" /\ a.data = b.data

\* The number of maximal runs of like blocks.
NumRuns(blocks) ==
  Cardinality({i \in 1..Len(blocks) : i = 1 \/ ~Like(blocks[i - 1], blocks[i])})

\* C6: in the image of a closed Writer no two adjacent chunks are both Raw,
\* both DontCare or both Fill with the same value, and there is one chunk for
\* each maximal run of like blocks written (and one for the Crc32 block the
\* Writer adds).
C6_RunMergingExhaustive ==
  WriterClosed =>
    LET chunks == ImageChunks
    IN  /\ \A i \in 1..Len(chunks) - 1 :
             LET a == chunks[i]
                 b == chunks[i + 1]
             IN  /\ ~(a.header.chunk_type = "Raw" /\ b.header.chunk_type = "Raw")
                 /\ ~(a.header.chunk_type = "DontCare" /\ b.header.chunk_type = "DontCare")
                 /\ ~(a.header.chunk_type = "Fill" /\ b.header.chunk_type = "Fill"
                      /\ a.body4 = b.body4)
        /\ Len(chunks) = NumRuns(written) + (IF WithCrc THEN 1 ELSE 0)

C6_Witness ==
  /\ WriterClosed /\ ~WithCrc
  /\ written = <<Fill(fillA), Fill(fillA), Fill(fillB)>>
  /\ Len(ImageChunks) = 2

\* The block a 4096-byte block of the raw image is to be taken for.
AllWordsEqualFirst(block) ==
  \A i \in 1..Len(block) : block[i] = block[((i - 1) % 4) + 1]

Classified(block) ==
  IF AllWordsEqualFirst(block)
    THEN IF \A i \in 1..4 : block[i] = 0 THEN Skip ELSE Fill(SubSeq(block, 1, 4))
    ELSE Raw(block)

\* C7: the Encoder takes a full block whose aligned 4-byte words all equal
\* the first for Skip when that word is zero and for Fill of that word
\* otherwise, and any other block for Raw with its bytes, also when the
\* bytes repeat with a period that is no multiple of 4.
C7_Classification ==
  (enc.done /\ Len(raw) = BLOCK_SIZE) => EncoderBlocks = <<Classified(raw)>>

C7_Witness ==
  /\ enc.done
  /\ raw = period3
  /\ EncoderBlocks = <<Raw(period3)>>

\* The 28 bytes of a FileHeader with no blocks and total_chunks chunks.
EmptyHeaderBytes(total_chunks) ==
  <<58, 255, 38, 237, 1, 0, 0, 0, 28, 0, 12, 0>> \o LE32(BLOCK_SIZE)
    \o <<0, 0, 0, 0, total_chunks, 0, 0, 0, 0, 0, 0, 0>>

\* C8: a Writer closed with no block written leaves exactly the 28 bytes of a
\* FileHeader with total_blocks 0 and total_chunks 0; with CRC, a FileHeader
\* with total_blocks 0 and total_chunks 1 and one Crc32 chunk (chunk_size 0,
\* total_size 16) that holds the CRC32 of no bytes, 0.
C8_EmptyImage ==
  (WriterClosed /\ written = <<>>) =>
    wr.dst.data = IF WithCrc
                    THEN EmptyHeaderBytes(1)
                           \o <<196, 202, 0, 0, 0, 0, 0, 0, 16, 0, 0, 0, 0, 0, 0, 0>>
                    ELSE EmptyHeaderBytes(0)

C8_Witness ==
  /\ WriterClosed /\ written = <<>> /\ WithCrc
  /\ Len(wr.dst.data) = 44

\* C9: decoding blocks of which n are Raw, Fill or Skip into a fresh empty
\* sink leaves, after close, n * 4096 bytes, also when the last block, or
\* every block, is Skip.
C9_DecodedLength ==
  (phase = "done" /\ prior = <<>>)
    => Len(dec.dst.data) = Len(DataBlocks(decoded)) * BLOCK_SIZE

C9_Witness ==
  /\ phase = "done" /\ prior = <<>>
  /\ decoded = <<Raw(raw1), Skip, Skip>>
  /\ Len(dec.dst.data) = 3 * BLOCK_SIZE

\* The bytes of the output where the k-th decoded block lies.
Region(k) ==
  LET start == Len(DataBlocks(SubSeq(decoded, 1, k - 1))) * BLOCK_SIZE
  IN  SubSeq(dec.dst.data, start + 1, start + BLOCK_SIZE)

\* C10: after close, the 4096 bytes of the output where a Skip block lies are
\* zero, whatever the sink held there when the Decoder was made.
C10_SkipIsZero ==
  phase = "done" =>
    \A k \in 1..Len(decoded) : decoded[k] = Skip => Region(k) = Zeros(BLOCK_SIZE)

\* C11: a Decoder::write_block step with a Raw block puts the block's bytes
\* at the output position, with a Fill block its value BLOCK_SIZE / 4 times;
\* with a Crc32 block it leaves position and content as they were; with a
\* Raw, Fill or Skip block the position moves on by one block, and what lay
\* before the position stays.  Position and content are those of the output
\* with the buffered bytes written out.
C11_DecoderExpansion ==
  [][(phase = "decode" /\ decoded' # decoded) =>
       LET block == decoded'[Len(decoded')]
           b == FlushBuf(dec.dst)
           a == FlushBuf(dec'.dst)
       IN  IF block.type = "Crc32" THEN a = b
           ELSE /\ a.pos = b.pos + BLOCK_SIZE
                /\ SubSeq(a.data, 1, b.pos) = SubSeq(b.data, 1, b.pos)
                /\ block.type = "Raw" =>
                     SubSeq(a.data, b.pos + 1, b.pos + BLOCK_SIZE) = block.data
                /\ block.type = "Fill" =>
                     SubSeq(a.data, b.pos + 1, b.pos + BLOCK_SIZE) = FillBytes(block.data)]_vars

C11_Witness ==
  /\ phase = "decode" /\ prior = <<>>
  /\ decoded = <<Fill(fillA), Crc32(crcX), Raw(raw1)>>
  /\ FlushBuf(dec.dst).data = FillBytes(fillA) \o raw1
  /\ FlushBuf(dec.dst).pos = 2 * BLOCK_SIZE

\* C12: the value of the Crc32 chunk a Writer with CRC appends on close is
\* the IEEE CRC32 of the raw-image bytes (Raw: its bytes, Fill: the value
\* BLOCK_SIZE / 4 times, Skip: zeros) of the Raw, Fill and Skip blocks
\* written, in order; the Crc32 blocks the caller wrote add no bytes.
C12_TrailingCrcValue ==
  (WriterClosed /\ WithCrc) =>
    LET last == ImageChunks[Len(ImageChunks)]
    IN  /\ last.header.chunk_type = "Crc32"
        /\ FromLE32H(last.body4) = CrcOfBlocks(written)

C12_Witness ==
  /\ WriterClosed /\ WithCrc
  /\ written = <<Fill(fillA), Crc32(crcX), Skip>>
  /\ FromLE32H(ImageChunks[Len(ImageChunks)].body4)
       = DigestWrite(DigestNew, FillBytes(fillA) \o Zeros(BLOCK_SIZE))
  /\ FromLE32H(ImageChunks[Len(ImageChunks)].body4)
       # DigestWrite(DigestNew, Zeros(BLOCK_SIZE))

\* C13: a digest fed Fill(v) is as a digest fed the bytes of v repeated
\* BLOCK_SIZE / 4 times in one write, as when fed Raw of those bytes; fed
\* Skip, as fed BLOCK_SIZE zero bytes; fed Crc32(c), as it was, for every c.
C13_HelperEquivalence ==
  phase = "done" =>
    CASE arg.block.type = "Fill" ->
           /\ out = DigestWrite(arg.digest, FillBytes(arg.block.data))
           /\ out = Digest_write_block(arg.digest, Raw(FillBytes(arg.block.data)))
      [] arg.block.type = "Skip" ->
           /\ out = DigestWrite(arg.digest, Zeros(BLOCK_SIZE))
           /\ out = Digest_write_block(arg.digest, Raw(Zeros(BLOCK_SIZE)))
      [] arg.block.type = "Crc32" -> out = arg.digest
      [] arg.block.type = "Raw" -> out = DigestWrite(arg.digest, arg.block.data)

C13_Witness ==
  /\ phase = "done"
  /\ arg.block = Fill(<<170, 0, 255, 1>>)
  /\ arg.digest = DigestWrite(DigestNew, raw1)
  /\ out = DigestWrite(DigestNew, raw1 \o FillBytes(<<170, 0, 255, 1>>))
  /\ out # arg.digest

\* The places of the Crc32 blocks written whose value is not the CRC32 of the
\* data blocks before them.
BadCrcs ==
  {i \in 1..Len(written) :
     written[i].type = "Crc32" /\ written[i].data # CrcOfBlocks(SubSeq(written, 1, i - 1))}

Least(S) == CHOOSE i \in S : \A j \in S : i <= j

\* C14: a verifying Reader over an image with a Crc32 chunk whose value is
\* not the CRC32 of the data before it fails with "Checksum does not match",
\* and with nothing else, when it comes to the first such chunk: by then it
\* has given every block before that chunk and no other, and it does not end
\* without the error.
C14_ChecksumErrorAtCrcChunk ==
  (rd.started /\ rd.crc # <<>>) =>
    LET bad == BadCrcs
        blocks == ReaderBlocks
    IN  bad # {} =>
          /\ rd.err \in {"", "Checksum does not match"}
          /\ rd.err = "Checksum does not match" =>
                blocks = SubSeq(written, 1, Least(bad) - 1)
          /\ rd.err = "" => (Len(blocks) < Least(bad) /\ rd.remaining > 0)

C14_Witness ==
  /\ rd.crc # <<>> /\ rd.err = "Checksum does not match"
  /\ written = <<Raw(raw1), Fill(fillA), Crc32(crcX)>>
  /\ ReaderBlocks = <<Raw(raw1), Fill(fillA)>>

\* An image with all the bytes of a file header of which the magic, the
\* version or the block size is not the one of the format.
WrongHeader(img) ==
  /\ Len(img) >= 28
  /\ \/ SubSeq(img, 1, 4) # <<58, 255, 38, 237>>
     \/ SubSeq(img, 5, 8) # <<1, 0, 0, 0>>
     \/ SubSeq(img, 13, 16) # LE32(BLOCK_SIZE)

RECURSIVE SumNumBlocks(_)
SumNumBlocks(chunks) ==
  IF chunks = <<>> THEN 0 ELSE Head(chunks).num_blocks + SumNumBlocks(Tail(chunks))

\* C17: of a raw image whose length is no multiple of the block size the
\* Encoder emits the whole blocks only: its chunks stand for
\* floor(len / BLOCK_SIZE) blocks, each Raw chunk lies within the image, and
\* it ends without error.
C17_PartialBlockDropped ==
  enc.done =>
    /\ SumNumBlocks(enc.spf) = Len(raw) \div BLOCK_SIZE
    /\ \A i \in 1..Len(enc.spf) :
         enc.spf[i].type = "Raw" =>
           /\ enc.spf[i].offset >= 0
           /\ enc.spf[i].offset + enc.spf[i].num_blocks * BLOCK_SIZE <= Len(raw)

\* C16: a Reader or an Encoder that has returned an error (Io, Parse or the
\* checksum's) takes no further step: it reads nothing more and collects no
\* further chunk.
C16_ErrorIsTerminal ==
  [][/\ rd.err # "" => rd' = rd
     /\ enc.err # "" => enc' = enc]_vars

C16_Witness ==
  /\ phase = "failed"
  /\ rd.err = "Io"
  /\ Len(rd.spf) = 1
  /\ rd.remaining > 0

\* C18: a Writer that was closed, or dropped without close, after any blocks
\* has run finish once and no more: the assert of finish never fails, the
\* file header was written once, and it carries the counts of the blocks and
\* chunks written, not zeros.
C18_FinishRunsOnce ==
  /\ ~wr.panicked
  /\ wr.finishes <= 1
  /\ phase \in {"read", "dropped"} =>
       LET h == FileHeaderRead(wr.dst.data, 0)
       IN  /\ wr.finishes = 1
           /\ h.err = ""
           /\ h.header.total_blocks = Len(DataBlocks(written))
           /\ h.header.total_chunks = Len(ImageChunks)
           /\ h.header.total_chunks = NumRuns(written) + (IF WithCrc THEN 1 ELSE 0)

C18_Witness ==
  /\ phase = "dropped"
  /\ written = <<Raw(raw1), Skip, Skip>>
  /\ wr.finishes = 1
  /\ FileHeaderRead(wr.dst.data, 0).header
       = [total_blocks |-> 3, total_chunks |-> 2, image_checksum |-> 0]

\* The k-th decoded block lies in the output with the bytes it stands for.
InOutput(k) ==
  LET start == Len(DataBlocks(SubSeq(decoded, 1, k - 1))) * BLOCK_SIZE
  IN  /\ Len(dec.dst.data) >= start + BLOCK_SIZE
      /\ SubSeq(dec.dst.data, start + 1, start + BLOCK_SIZE) = BlockBytes(decoded[k])

\* C19: when Decoder::close returns Ok, the bytes of every Raw and Fill
\* block written before have reached the sink; a sink that rejects the
\* buffered bytes makes close return an Io error.
C19_CloseReportsFlush ==
  (phase = "done" /\ ret = "Ok") =>
    \A k \in 1..Len(decoded) : decoded[k].type \in {"Raw", "Fill"} => InOutput(k)

\* The n bytes of k, least significant first.
Bytes(k, n) == [i \in 1..n |-> (k \div (256 ^ (i - 1))) % 256]

\* C20: write_to gives for a FileHeader 28 bytes: magic 0xED26FF3A, version
\* 1.0, sizes 28 and 12, the block size, total_blocks, total_chunks and
\* image_checksum, each little-endian in that order; for a ChunkHeader 12
\* bytes: the type's magic, a reserved 0, chunk_size and total_size;
\* read_from on those bytes gives the header back and leaves none of them.
C20_HeaderWireRoundTrip ==
  phase = "done" =>
    IF arg.kind = "file"
      THEN /\ Len(out.bytes) = 28
           /\ out.bytes = <<58, 255, 38, 237, 1, 0, 0, 0, 28, 0, 12, 0>>
                            \o Bytes(BLOCK_SIZE, 4)
                            \o Bytes(arg.header.total_blocks, 4)
                            \o Bytes(arg.header.total_chunks, 4)
                            \o Bytes(arg.header.image_checksum, 4)
           /\ out.back = [err |-> "", header |-> arg.header, pos |-> 28]
      ELSE /\ Len(out.bytes) = 12
           /\ out.bytes = Bytes(CASE arg.header.chunk_type = "Raw" -> 51905
                                  [] arg.header.chunk_type = "Fill" -> 51906
                                  [] arg.header.chunk_type = "DontCare" -> 51907
                                  [] arg.header.chunk_type = "Crc32" -> 51908, 2)
                            \o <<0, 0>>
                            \o Bytes(arg.header.chunk_size, 4)
                            \o Bytes(arg.header.total_size, 4)
           /\ out.back = [err |-> "", header |-> arg.header, pos |-> 12]

C20_Witness ==
  /\ phase = "done"
  /\ arg = [kind |-> "chunk",
            header |-> [chunk_type |-> "Raw", chunk_size |-> 1, total_size |-> 65536]]
  /\ out.bytes = <<193, 202, 0, 0, 1, 0, 0, 0, 0, 0, 1, 0>>
  /\ out.back.header = arg.header

\* The source of the Reader ends before the image it is the start of.
SourceShort == Len(wr.dst.data) < Len(arg)

\* C21: a Reader over a source that ends before the last of the chunks the
\* file header counts does not end in success and does not fail to parse:
\* once the header is read it either has chunks left to read or has failed
\* with an Io error.
C21_ShortSourceIsIo ==
  (rd.started /\ SourceShort) =>
    /\ rd.err \in {"", "Io"}
    /\ rd.err = "" => rd.remaining > 0

\* C22: the drop of a Writer on which write_block or close has returned an
\* Io error writes no chunk header and no file header: no header is handed
\* to the sink, and the bytes of the sink below the position it stood at
\* when the call failed stay as they were.
C22_NoBackPatchAfterError ==
  [][(phase' = "dropped" /\ ret = "Io") =>
       /\ wr'.patched = wr.patched
       /\ \A i \in 1..Len(wr.dst.data) :
            i <= wr.dst.pos => wr'.dst.data[i] = wr.dst.data[i]]_vars

\* The sum of total_size over the first k of the headers the Writer patched.
RECURSIVE SumTotalSize(_, _)
SumTotalSize(patched, k) ==
  IF k = 0 THEN 0 ELSE patched[k].header.total_size + SumTotalSize(patched, k - 1)

\* The place in `blocks` where the k-th maximal run of like blocks starts.
RunStart(blocks, k) ==
  LET starts == {i \in 1..Len(blocks) : i = 1 \/ ~Like(blocks[i - 1], blocks[i])}
  IN  CHOOSE i \in starts : Cardinality({j \in starts : j < i}) = k - 1

ChunkTypeOf(block) == IF block.type = "Skip" THEN "DontCare" ELSE block.type

\* C23: the header of the k-th chunk is written at offset 28 plus the sum of
\* total_size of the chunks before it; until close, the sink stands (with
\* what is buffered written out) at the end of the body of the chunk in
\* hand, 28 plus the total_size of all chunks so far; after close the image
\* is 28 plus the sum of all total_size long, its chunk records lie one
\* after the other from offset 28 with the headers patched, and the k-th is
\* the chunk of the k-th run of the blocks written.
C23_ChunkLayout ==
  LET n == Len(wr.patched)
      chunks == ImageChunks
  IN  /\ \A k \in 1..n : wr.patched[k].at = FILE_HEADER_SIZE + SumTotalSize(wr.patched, k - 1)
      /\ ~wr.finished =>
           FlushBuf(wr.dst).pos
             = FILE_HEADER_SIZE + SumTotalSize(wr.patched, n) + wr.current_chunk.total_size
      /\ wr.finished =>
           /\ Len(wr.dst.data) = FILE_HEADER_SIZE + SumTotalSize(wr.patched, n)
           /\ Len(chunks) = n
           /\ \A k \in 1..n : /\ chunks[k].at = wr.patched[k].at
                              /\ chunks[k].header = wr.patched[k].header
           /\ \A k \in 1..NumRuns(written) :
                /\ chunks[k].header.chunk_type = ChunkTypeOf(written[RunStart(written, k)])
                /\ chunks[k].header.chunk_type = "Fill" =>
                     chunks[k].body4 = written[RunStart(written, k)].data

C23_Witness ==
  /\ wr.finished /\ WithCrc
  /\ written = <<Skip, Raw(raw1), Fill(fillA)>>
  /\ [k \in 1..4 |-> wr.patched[k].at] = <<28, 40, 52 + BLOCK_SIZE, 68 + BLOCK_SIZE>>
  /\ Len(wr.dst.data) = 84 + BLOCK_SIZE

\* The bytes of the body a chunk starts with when `block` opens it.
OpeningBody(block) ==
  CASE block.type = "Raw" -> BLOCK_SIZE
    [] block.type = "Fill" -> 4
    [] block.type = "Skip" -> 0
    [] block.type = "Crc32" -> 4

\* C24: a write_block step whose block finds no chunk open, a chunk of
\* another type, a Fill chunk of another value, or that is a Crc32 block,
\* opens a new chunk for the block; the chunk that was open is finished
\* first: its header is written into its own slot, at the position of the
\* sink less its total_size, the counters take it up, and the slot of the
\* new chunk starts where the old chunk ended.
C24_NoOverMerge ==
  [][(phase = "write" /\ written' # written) =>
       LET block == written'[Len(written')]
           open == wr.current_chunk
           before == FlushBuf(wr.dst)
           after == FlushBuf(wr'.dst)
           due == \/ open = NoChunk
                  \/ open.chunk_type # ChunkTypeOf(block)
                  \/ open.chunk_type = "Fill" /\ wr.current_fill # block.data
                  \/ block.type = "Crc32"
       IN  due =>
             /\ wr'.current_chunk
                  = [chunk_type |-> ChunkTypeOf(block),
                     chunk_size |-> IF block.type = "Crc32" THEN 0 ELSE 1,
                     total_size |-> CHUNK_HEADER_SIZE + OpeningBody(block)]
             /\ after.pos = before.pos + CHUNK_HEADER_SIZE + OpeningBody(block)
             /\ IF open = NoChunk
                  THEN /\ wr'.patched = wr.patched
                       /\ wr'.num_chunks = wr.num_chunks
                       /\ wr'.num_blocks = wr.num_blocks
                  ELSE /\ wr'.patched
                            = Append(wr.patched,
                                     [header |-> open, at |-> before.pos - open.total_size])
                       /\ wr'.num_chunks = wr.num_chunks + 1
                       /\ wr'.num_blocks = wr.num_blocks + open.chunk_size
                       /\ ReadExact(after.data, before.pos - open.total_size, CHUNK_HEADER_SIZE)
                            = ChunkHeaderBytes(open)]_vars

C24_Witness ==
  /\ wr.finished /\ ~WithCrc
  /\ written = <<Fill(fillA), Crc32(crcX), Crc32(crcX)>>
  /\ [k \in 1..3 |-> wr.patched[k].header.chunk_type] = <<"Fill", "Crc32", "Crc32">>
  /\ [k \in 1..3 |-> wr.patched[k].at] = <<28, 44, 60>>

\* The number of blocks of the k-th maximal run of like blocks.
RunLen(blocks, k) ==
  (IF k < NumRuns(blocks) THEN RunStart(blocks, k + 1) ELSE Len(blocks) + 1)
    - RunStart(blocks, k)

\* C25: in the image of a closed Writer the chunk of every run of Fill
\* blocks, however many blocks the run has and whatever chunks came before,
\* has a body of exactly the 4 bytes of the value: its header counts the
\* blocks of the run with total_size 16, the value follows the header, and
\* the next chunk record, or the end of the image, follows the value.
C25_FillPatternOnce ==
  wr.finished =>
    LET chunks == ImageChunks
        runs == NumRuns(written)
    IN  /\ Len(chunks) = runs + (IF WithCrc THEN 1 ELSE 0)
        /\ \A k \in 1..runs :
             written[RunStart(written, k)].type = "Fill" =>
               /\ chunks[k].header = [chunk_type |-> "Fill",
                                      chunk_size |-> RunLen(written, k),
                                      total_size |-> 16]
               /\ chunks[k].body4 = written[RunStart(written, k)].data
               /\ IF k < Len(chunks)
                    THEN /\ chunks[k + 1].at = chunks[k].at + 16
                         /\ chunks[k + 1].header # NoChunk
                    ELSE Len(wr.dst.data) = chunks[k].at + 16

C25_Witness ==
  /\ wr.finished /\ ~WithCrc
  /\ written = <<Fill(fillA), Fill(fillA), Raw(raw1)>>
  /\ SubSeq(wr.dst.data, 29, 44) = <<194, 202, 0, 0, 2, 0, 0, 0, 16, 0, 0, 0>> \o fillA
  /\ Len(wr.dst.data) = 56 + BLOCK_SIZE

RecordBlocks(c, data) ==
  CASE c.header.chunk_type = "Raw" ->
         [j \in 1..c.header.chunk_size |->
            Raw(ReadExact(data, c.at + CHUNK_HEADER_SIZE + (j - 1) * BLOCK_SIZE, BLOCK_SIZE))]
    [] c.header.chunk_type = "Fill" -> [j \in 1..c.header.chunk_size |-> Fill(c.body4)]
    [] c.header.chunk_type = "DontCare" -> [j \in 1..c.header.chunk_size |-> Skip]
    [] c.header.chunk_type = "Crc32" -> <<Crc32(FromLE32H(c.body4))>>

\* C27: the blocks a Reader gives are, chunk record by chunk record in the
\* order of the image, chunk_size Raw blocks of the successive BLOCK_SIZE
\* bytes of the body, chunk_size Fill blocks of the 4 bytes after the
\* header, chunk_size Skip blocks, or the one Crc32 block of a Crc32 chunk;
\* and while it has not failed the source stands right after the last
\* record read, so after the 4 bytes of a Fill chunk.
C27_ReaderOrder ==
  rd.started =>
    LET chunks == ImageChunks
        n == Len(rd.spf)
    IN  /\ n <= Len(chunks)
        /\ ReaderBlocks = Concat([k \in 1..n |-> RecordBlocks(chunks[k], wr.dst.data)])
        /\ rd.err = "" =>
             rd.pos = IF n < Len(chunks) THEN chunks[n + 1].at ELSE Len(wr.dst.data)

C27_Witness ==
  /\ ReaderDone /\ ~WithCrc
  /\ written = <<Fill(fillB), Fill(fillB), Raw(raw2)>>
  /\ rd.spf = <<FillChunk(fillB, 2), RawChunk(56, 1)>>
  /\ ReaderBlocks = written

\* C28: a Reader over a well-formed image, whatever bytes follow it, reads
\* as many chunk records as the file header counts and no more: it does not
\* fail, the chunks collected and the turns left add up to total_chunks, the
\* source never stands beyond the last record, and stands right after it
\* when no turn is left; with total_chunks 0 the source stays at offset 28
\* and nothing is collected.
C28_ReaderStopsAtCount ==
  rd.started =>
    LET total_chunks == FileHeaderRead(arg, 0).header.total_chunks
    IN  /\ rd.err = ""
        /\ Len(rd.spf) + rd.remaining = total_chunks
        /\ rd.pos <= Len(arg)
        /\ rd.remaining = 0 => rd.pos = Len(arg)
        /\ total_chunks = 0 => (rd.pos = FILE_HEADER_SIZE /\ rd.spf = <<>>)

C28_Witness ==
  /\ ReaderDone
  /\ Len(wr.dst.data) = Len(arg) + CHUNK_HEADER_SIZE
  /\ Len(rd.spf) = 2
  /\ rd.pos = Len(arg)

\* The blocks a record stands for: chunk_size of them.
BlocksOfRecord(rec) ==
  CASE rec.header.chunk_type = "Raw" ->
         [j \in 1..rec.header.chunk_size |->
            Raw(SubSeq(rec.body, (j - 1) * BLOCK_SIZE + 1, j * BLOCK_SIZE))]
    [] rec.header.chunk_type = "Fill" -> [j \in 1..rec.header.chunk_size |-> Fill(rec.body)]
    [] rec.header.chunk_type = "DontCare" -> [j \in 1..rec.header.chunk_size |-> Skip]

RECURSIVE SumRecordSizes(_, _)
SumRecordSizes(records, k) ==
  IF k = 0 THEN 0
  ELSE CHUNK_HEADER_SIZE + Len(records[k].body) + SumRecordSizes(records, k - 1)

\* C29: a Reader over an image with Raw, Fill and DontCare chunks of
\* chunk_size 0 does not fail; a chunk of no blocks is read like any other,
\* its 12 bytes of header and its body (4 bytes for Fill, none otherwise),
\* and takes one of the total_chunks turns, none of which goes below 0; it
\* gives no block, and the chunks after it give theirs.
C29_EmptyChunks ==
  rd.started =>
    LET n == Len(rd.spf)
    IN  /\ rd.err = ""
        /\ rd.remaining >= 0
        /\ n + rd.remaining = Len(arg)
        /\ rd.pos = FILE_HEADER_SIZE + SumRecordSizes(arg, n)
        /\ \A k \in 1..n : /\ rd.spf[k].type = arg[k].header.chunk_type
                           /\ rd.spf[k].num_blocks = arg[k].header.chunk_size
        /\ ReaderBlocks = Concat([k \in 1..n |-> BlocksOfRecord(arg[k])])

C29_Witness ==
  /\ ReaderDone
  /\ arg = <<Record("Fill", 0, fillC), Record("Raw", 0, <<>>), Record("Raw", 1, raw1)>>
  /\ rd.spf = <<FillChunk(fillC, 0), RawChunk(56, 0), RawChunk(68, 1)>>
  /\ ReaderBlocks = <<Raw(raw1)>>

\* C30: FileHeader::read_from gives a Parse error for the bytes of a header
\* of which the magic is not 0xED26FF3A, the version not 1.0, the
\* file_header_size not 28, the chunk_header_size not 12 or the block size
\* not the block size; when all five are those it gives the header with
\* total_blocks, total_chunks and image_checksum as the bytes have them,
\* whatever they are, and has read the 28 bytes.
C30_HeaderValidation ==
  phase = "done" =>
    IF /\ arg.magic = <<60710, 65338>>
       /\ arg.major = 1 /\ arg.minor = 0
       /\ arg.file_header_size = 28
       /\ arg.chunk_header_size = 12
       /\ arg.block_size = BLOCK_SIZE
      THEN out = [err |-> "",
                  header |-> [total_blocks |-> arg.total_blocks,
                              total_chunks |-> arg.total_chunks,
                              image_checksum |-> arg.image_checksum],
                  pos |-> 28]
      ELSE out.err = "Parse"

C30_Witness ==
  /\ phase = "done"
  /\ arg.magic = <<60710, 65338>> /\ arg.major = 1 /\ arg.minor = 0
  /\ arg.file_header_size = 28 /\ arg.chunk_header_size = 16 /\ arg.block_size = BLOCK_SIZE
  /\ out.err = "Parse" /\ out.pos = 12

\* C31: ChunkHeader parsing maps exactly the magics 0xCAC1, 0xCAC2, 0xCAC3 and
\* 0xCAC4 to Raw, Fill, DontCare and Crc32 and is a Parse error for every
\* other 16-bit value; the parsed header does not depend on the reserved
\* field, and chunk_size and total_size are the values on the wire, whether
\* or not they agree with the chunk type.
C31_ChunkHeaderParsing ==
  phase = "done" =>
    LET t == CASE arg.magic = 51905 -> "Raw"
               [] arg.magic = 51906 -> "Fill"
               [] arg.magic = 51907 -> "DontCare"
               [] arg.magic = 51908 -> "Crc32"
               [] OTHER -> "none"
    IN  /\ t = "none" => out.err = "Parse"
        /\ t # "none" =>
             /\ out.err = ""
             /\ out.header = [chunk_type |-> t,
                              chunk_size |-> arg.chunk_size,
                              total_size |-> arg.total_size]
        /\ out = ChunkHeaderRead(ChunkWireBytes([arg EXCEPT !.reserved = 0]), 0)

C31_Witness ==
  /\ phase = "done"
  /\ arg.magic = 51906 /\ arg.reserved = 65535
  /\ arg.chunk_size = 2147483647 /\ arg.total_size = 0
  /\ out.err = "" /\ out.header.chunk_type = "Fill"
  /\ out.header.chunk_size = 2147483647 /\ out.header.total_size = 0

\* The Reader as Reader::read leaves it, started as r over data.
Reader_read(r, data) == Reader_read_loop(Reader_read_header(r, data), data)

\* C32: the Reader does not look at the file header's image_checksum, with
\* or without verification: it ends as it does over the same image with
\* image_checksum 0, and a verifying Reader over an image whose Crc32 chunks
\* are right ends without error whatever the image_checksum.  A Reader
\* without verification reports no checksum error, nor any other, whatever
\* the Crc32 chunks carry, and what it yields is what the verifying Reader
\* yields over the image with the right CRCs: the same chunks in the same
\* places, each Crc32 chunk with the value the image has for it.
C32_CrcNotVerified ==
  rd.started =>
    LET zero == CrcImage([arg EXCEPT !.image_checksum = 0])
        good == CrcImage([arg EXCEPT !.crc = "right", !.image_checksum = 0])
        ver == Reader_read(Reader_with_crc(Reader_new), good)
        fresh == IF rd.crc = <<>> THEN Reader_new ELSE Reader_with_crc(Reader_new)
    IN  /\ (rd.err # "" \/ rd.remaining = 0) => rd = Reader_read(fresh, zero)
        /\ (rd.crc # <<>> /\ arg.crc = "right") => rd.err = ""
        /\ ver.err = ""
        /\ rd.crc = <<>> =>
             /\ rd.err = ""
             /\ rd.remaining = 0 =>
                  /\ Len(rd.spf) = Len(ver.spf)
                  /\ \A k \in 1..Len(rd.spf) :
                       IF arg.shape[k] = "Crc32"
                         THEN rd.spf[k] = Crc32Chunk(CrcCarried(arg.shape, arg.crc, k))
                         ELSE rd.spf[k] = ver.spf[k]
                  /\ arg.crc = "right" => rd.spf = ver.spf

C32_Witness ==
  /\ rd.started /\ rd.crc = <<>> /\ rd.err = "" /\ rd.remaining = 0
  /\ arg.shape = <<"Raw", "Crc32", "Fill">>
  /\ arg.crc = "other" /\ arg.image_checksum = 305419896
  /\ rd.spf[2] = Crc32Chunk(crcX)

\* C33: the total_size of an open Raw chunk never wraps: however long the
\* run of Raw blocks, every Raw chunk header the Writer writes has total_size
\* = 12 + chunk_size * BLOCK_SIZE exactly (3 + chunk_size * WordsPerBlock in
\* words), and it is written to that chunk's own header slot.
C33_RawTotalSizeExact ==
  phase \in {"run", "panic", "closed"} =>
    \A k \in 1..Len(out.patched) :
      out.patched[k].header.chunk_type = "Raw" =>
        /\ out.patched[k].header.total_size =
             CHUNK_HEADER_WORDS + out.patched[k].header.chunk_size * WordsPerBlock
        /\ out.patched[k].at = out.patched[k].slot

\* C34: for every chunk_size n of a Raw chunk the Reader advances the source
\* by exactly n * BLOCK_SIZE bytes (n * WordsPerBlock words) past the chunk
\* header, the same with and without verification, and the verifying Reader
\* feeds its digest exactly n * BLOCK_SIZE / 4 copies of the value of a Fill
\* chunk of n blocks.
C34_ReaderSizesExact ==
  phase \in {"chunk read", "panic"} =>
    /\ arg.chunk_type = "Raw" =>
         out.pos = LongRead_new(arg.verify).pos + arg.chunk_size * WordsPerBlock
    /\ (arg.chunk_type = "Fill" /\ arg.verify) =>
         out.fed = arg.chunk_size * WordsPerBlock

\* C35: between calls on a Writer, also after a write_block that returned an
\* I/O error, current_fill is set exactly when the open chunk is a Fill
\* chunk (so the unwrap of current_fill in can_merge has a value), and a
\* chunk is open after a write_block that returned Ok.
C35_WriterStateInvariant ==
  phase = "write" =>
    /\ (wr.current_fill # <<>>) <=> (wr.current_chunk.chunk_type = "Fill")
    /\ (written # <<>> /\ ret = "Ok") => wr.current_chunk # NoChunk

\* C38: after any calls of add_raw, add_fill, add_dont_care and add_crc32 no
\* two adjacent chunks of the File are both Raw, both DontCare, or both Fill
\* with the same value; a call whose size is not a multiple of the block
\* size returns an error and leaves the chunks as they were (and any other
\* call returns Ok); num_blocks is the sum of the sizes accepted, divided by
\* the block size.
C38_FileChunkList ==
  phase = "file" =>
    LET chunks == out.f.chunks
    IN  /\ \A k \in 1..Len(chunks) - 1 :
             /\ ~(chunks[k].type = "Raw" /\ chunks[k + 1].type = "Raw")
             /\ ~(chunks[k].type = "DontCare" /\ chunks[k + 1].type = "DontCare")
             /\ ~(chunks[k].type = "Fill" /\ chunks[k + 1].type = "Fill"
                  /\ chunks[k].data = chunks[k + 1].data)
        /\ out.ok <=> out.size % BLOCK_SIZE = 0
        /\ ~out.ok => chunks = out.before
        /\ File_num_blocks(out.f) = out.accepted \div BLOCK_SIZE

C38_Witness ==
  /\ phase = "file"
  /\ ~out.ok /\ out.size = BLOCK_SIZE + 1
  /\ out.f.chunks = <<File_Fill(fillA, 3 * BLOCK_SIZE)>>
  /\ out.before = out.f.chunks
  /\ File_num_blocks(out.f) = 3

\* C36: on fresh empty sinks the earlier Decoder, which writes zero bytes
\* for DontCare and the fill value byte by byte, and the seek-based Decoder,
\* which seeks a block less one byte and writes one zero byte per Skip
\* block, leave the same bytes, and so the same length, for every sequence
\* of blocks.
C36_DecodersAgree ==
  phase = "done" =>
    /\ out.old = dec.dst.data
    /\ Len(out.old) = Len(dec.dst.data)
    /\ Len(out.old) = BLOCK_SIZE * Len(SelectSeq(decoded, IsData))

C36_Witness ==
  /\ phase = "done"
  /\ decoded = <<Skip, Fill(fillA), Skip>>
  /\ out.f.chunks = <<File_DontCare(BLOCK_SIZE), File_Fill(fillA, BLOCK_SIZE),
                      File_DontCare(BLOCK_SIZE)>>
  /\ out.old = Zeros(BLOCK_SIZE) \o FillBytes(fillA) \o Zeros(BLOCK_SIZE)
  /\ dec.dst.data = out.old

\* C37: one Decoder given the blocks of image A and then the blocks of image
\* B on a fresh sink leaves the raw output of A immediately followed by the
\* raw output of B; between write_block calls it carries nothing but the
\* output position, which stands at the end of what A alone gives.
C37_DecoderConcat ==
  /\ phase = "done" => dec.dst.data = out.a.dst.data \o out.b.dst.data
  /\ phase = "imageA" =>
       /\ dec = out.a
       /\ dec.dst.pos + Len(dec.dst.buf) = BLOCK_SIZE * Len(SelectSeq(arg.a, IsData))
  /\ phase = "imageB" =>
       dec.dst.pos + Len(dec.dst.buf) =
         BLOCK_SIZE * (Len(SelectSeq(arg.a, IsData)) + Len(SelectSeq(arg.b, IsData)))

C37_Witness ==
  /\ phase = "done"
  /\ arg.a = <<Fill(fillA), Skip>>
  /\ arg.b = <<Raw(raw1)>>
  /\ out.a.dst.data = FillBytes(fillA) \o Zeros(BLOCK_SIZE)
  /\ out.b.dst.data = raw1
  /\ dec.dst.data = FillBytes(fillA) \o Zeros(BLOCK_SIZE) \o raw1
====
